---- MODULE Spec2Model ----
(***************************************************************************)
(* Data session controller (the useHypercubeData hook) and the interaction *)
(* state held by App, of the NEST point-cloud viewer.                      *)
(*                                                                         *)
(* One load generation is one run of the hook's effect: it owns an         *)
(* AbortController, a cache-bust token and an `active` flag, fetches the   *)
(* manifest, then nodes/edges/species under Promise.all, and commits       *)
(* 'ready' or 'error' unless it has been superseded.  JavaScript runs one  *)
(* task at a time, so an await continuation is one atomic action.  The     *)
(* reload button is a click handler: React renders the new refreshToken    *)
(* and runs the effect's cleanup and the effect itself within that         *)
(* event, so Reload is one action.  fetch() is an external collaborator:   *)
(* the model does not assume that it honours the abort signal before a     *)
(* response that has already arrived is delivered, so a request of a       *)
(* cancelled generation may still resolve, fail, or reject with            *)
(* AbortError.                                                             *)
(***************************************************************************)
EXTENDS Integers, FiniteSets, Sequences, TLC

\* ---------------------------------------------------------------- bounds
\* Number of reload() calls explored.
MaxReloads == 1
\* Largest node count of a nodes.json served by the host.
MaxNodes == 2

\* ------------------------------------------------------------- constants
\* useState(null): no hovered / selected node.
NullIndex == -1

Gens == 0..MaxReloads
DataFiles == {"nodes", "edges", "species"}
FileNames == {"manifest"} \cup DataFiles

\* What the host may serve as manifest.json: generated_files naming the three
\* files, no generated_files at all, or the JSON value null.
ManifestShapes == {"named", "default", "null"}

NullData == [kind |-> "null"]
NullError == [kind |-> "null"]
NoDoc == [kind |-> "none"]

VARIABLES
    refreshToken,   \* useState(0) of the hook: the generation counter
    state,          \* useState({status, data, error}) of the hook
    gens,           \* per generation: the effect's closure and its async function
    mounted,        \* whether the consuming view is mounted
    hoverState,     \* App: index of the hovered node, or NullIndex
    selectedIndex,  \* App: index of the selected node, or NullIndex
    package,        \* processPackage: its argument {manifest, nodes, edges, species}
    snapshot,       \* processPackage: its return value, once it has run
    env,            \* the build: import.meta.env and the bundled asset URLs
    now,            \* the clock that Date.now() reads
    loads,          \* per effect run: its cacheBust and the v tokens it sent
    fetched,        \* the last fetchJson call: its arguments, URL and outcome
    rawPosition,    \* stylizeDisplayPosition: its argument
    stylized        \* stylizeDisplayPosition: its return value, once it has run

vars == <<refreshToken, state, gens, mounted, hoverState, selectedIndex,
          package, snapshot, env, now, loads, fetched, rawPosition, stylized>>

\* The variables of the derivation of one package, which the load controller
\* and the interaction handlers leave alone.
derivation == <<package, snapshot>>
NoPackage == [kind |-> "none"]
NoSnapshot == [kind |-> "none"]

\* The variables of the file fetcher taken alone, and of one call of
\* stylizeDisplayPosition; the load controller, the interaction handlers and
\* the derivation leave them alone.
fetching == <<env, now, loads, fetched>>
styling == <<rawPosition, stylized>>
NoEnv == [kind |-> "none"]
NoFetch == [kind |-> "none"]
NoPosition == [kind |-> "none"]
FetchingIdle ==
    /\ env = NoEnv
    /\ now = 0
    /\ loads = <<>>
    /\ fetched = NoFetch
StylingIdle ==
    /\ rawPosition = NoPosition
    /\ stylized = NoPosition

\* ------------------------------------------------------- fetch requests
\* The default file locations of lines 302, 306, 310.
DefaultPath(f) == IF f = "manifest" THEN "manifest.json"
                  ELSE IF f = "nodes" THEN "nodes.json"
                  ELSE IF f = "edges" THEN "edges.json" ELSE "species.json"

\* The location a manifest with generated_files names for f.
NamedPath(f) == IF f = "nodes" THEN "pkg/nodes.json"
                ELSE IF f = "edges" THEN "pkg/edges.json" ELSE "pkg/species.json"

\* files.<f> ?? '<f>.json' with files = manifest.generated_files ?? {}
FilePathAlwaysDefault(manifest, f) == DefaultPath(f)
FilePath(manifest, f) ==
    IF manifest.shape = "named" THEN NamedPath(f) ELSE DefaultPath(f)

\* fetchJson(path, {signal: controller.signal, cacheBust}) as issued by
\* generation g: the request carries the signal of g's controller.
RequestSharedController(g, f, path) ==
    [file |-> f, path |-> path, signal |-> 0]
Request(g, f, path) ==
    [file |-> f, path |-> path, signal |-> g]

\* The JSON document a request resolves to.  shape is the manifest's shape
\* ("na" for the other files), count the length of the nodes array (0 for the
\* other files).
Doc(req, shape, count) ==
    [kind |-> "doc", file |-> req.file, path |-> req.path, signal |-> req.signal,
     shape |-> shape, count |-> count]

\* The error a failed fetch of generation g rejects with, or the TypeError
\* its continuation throws on a manifest that is null.
FetchError(g, f, reason) == [kind |-> "error", file |-> f, gen |-> g, reason |-> reason]

\* ------------------------------------------------------------ snapshot
\* processPackage: the derived snapshot, here by the documents it was built
\* from and the length of its nodes list.
processPackage(manifest, nodes, edges, species) ==
    [kind |-> "snapshot", manifest |-> manifest, nodes |-> nodes,
     edges |-> edges, species |-> species, count |-> nodes.count]

\* ------------------------------------------------------- hook: setState
InitialState == [status |-> "loading", data |-> NullData, error |-> NullError]

\* setState((previous) => ({ ...previous, status: 'loading', error: null }))
LoadingStateNullsData(previous) ==
    [status |-> "loading", data |-> NullData, error |-> NullError]
LoadingStateKeepsError(previous) == [previous EXCEPT !.status = "loading"]
LoadingStateSkipped(previous) == previous
LoadingState(previous) ==
    [previous EXCEPT !.status = "loading", !.error = NullError]

\* setState({ status: 'ready', data: processPackage(...), error: null })
ReadyState(data) == [status |-> "ready", data |-> data, error |-> NullError]

\* setState({ status: 'error', data: null, error })
ErrorStateKeepsData(error) == [status |-> "error", data |-> state.data, error |-> error]
ErrorState(error) == [status |-> "error", data |-> NullData, error |-> error]

\* if (!active) return                      -- after Promise.all resolved
DiscardSuccessNever(g) == FALSE
DiscardSuccessAlways(g) == TRUE
DiscardSuccess(g) == ~gens[g].active

\* if (!active || controller.signal.aborted) return        -- in the catch
SwallowErrorNever(g) == FALSE
SwallowError(g) == ~gens[g].active \/ gens[g].aborted

\* --------------------------------------------------- hook: generations
IdleGen ==
    [pc |-> "idle", active |-> FALSE, aborted |-> FALSE,
     req |-> [f \in FileNames |-> "unissued"],
     res |-> [f \in FileNames |-> "unissued"],
     docs |-> [f \in FileNames |-> NoDoc],
     exit |-> "none"]

\* The effect body up to the first await: a new controller, active = true,
\* and the manifest request in flight.
NewGen ==
    [IdleGen EXCEPT !.pc = "manifest", !.active = TRUE,
                    !.req["manifest"] = DefaultPath("manifest"),
                    !.res["manifest"] = "pending"]

\* controller.abort() on the requests of a generation: those its async
\* function still awaits stay pending until their outcome is delivered; those
\* nobody awaits any more are simply dropped.
Abort(gen) ==
    [f \in FileNames |->
        IF gen.pc = "returned" /\ gen.res[f] = "pending" THEN "ignored" ELSE gen.res[f]]

\* The effect's cleanup: active = false; controller.abort()
CleanupKeepsActive(gen) == [gen EXCEPT !.aborted = TRUE, !.res = Abort(gen)]
Cleanup(gen) == [gen EXCEPT !.active = FALSE, !.aborted = TRUE, !.res = Abort(gen)]

\* setRefreshToken((value) => value + 1)
NextToken(value) == value + 1

\* The async function of a generation has finished with `exit`: its locals
\* (files, the documents) are gone.  The requests of a generation that was
\* not cancelled stay in flight; nothing observes what a cancelled
\* generation's requests do after its catch block has returned.
Returned(gen, exit) ==
    [gen EXCEPT !.pc = "returned", !.exit = exit,
                !.req = [f \in FileNames |-> IF @[f] = "unissued" THEN @[f] ELSE "issued"],
                !.res = [f \in FileNames |->
                           IF exit = "swallowed" /\ @[f] \in {"resolved", "pending"}
                              /\ f \in DataFiles
                           THEN "ignored" ELSE @[f]],
                !.docs = [f \in FileNames |-> NoDoc]]

\* ------------------------------------------------------- App: selection
\* useEffect(..., [data, selectedIndex]): clears a selection that the data
\* cannot resolve.
SelectionEffectOffByOne(data, selected) ==
    IF data = NullData THEN NullIndex
    ELSE IF selected # NullIndex /\ selected > data.count THEN NullIndex
    ELSE selected
SelectionEffectOneTooLow(data, selected) ==
    IF data = NullData THEN NullIndex
    ELSE IF selected # NullIndex /\ selected + 1 >= data.count THEN NullIndex
    ELSE selected
SelectionEffect(data, selected) ==
    IF data = NullData THEN NullIndex
    ELSE IF selected # NullIndex /\ selected >= data.count THEN NullIndex
    ELSE selected

\* status === 'ready' && data: HypercubeCanvas is rendered and emits events.
CanvasRendered == state.status = "ready" /\ state.data # NullData

\* ------------------------------------------------------------------ Init
Init ==
    /\ refreshToken = 0
    /\ state = LoadingState(InitialState)
    /\ gens = [g \in Gens |-> IF g = 0 THEN NewGen ELSE IdleGen]
    /\ mounted = TRUE
    /\ hoverState = NullIndex
    /\ selectedIndex = NullIndex
    /\ package = NoPackage
    /\ snapshot = NoSnapshot
    /\ FetchingIdle
    /\ StylingIdle

\* --------------------------------------------------------------- actions
\* The catch block of generation g, whose closure is `got` at the throw:
\* the error is swallowed or committed.
Catch(g, got, error) ==
    IF SwallowError(g)
    THEN /\ gens' = [gens EXCEPT ![g] = Returned(got, "swallowed")]
         /\ UNCHANGED <<state, selectedIndex>>
    ELSE /\ gens' = [gens EXCEPT ![g] = Returned(got, "error")]
         /\ state' = ErrorState(error)
         /\ selectedIndex' = SelectionEffect(state'.data, selectedIndex)

\* reload(), with the re-render it causes: cleanup of the previous effect,
\* then the effect of the new refreshToken.
ReloadClearsHover ==
    /\ mounted
    /\ refreshToken < MaxReloads
    /\ refreshToken' = NextToken(refreshToken)
    /\ gens' = [gens EXCEPT ![refreshToken] = Cleanup(@),
                            ![refreshToken'] = NewGen]
    /\ state' = LoadingState(state)
    /\ selectedIndex' = SelectionEffect(state'.data, selectedIndex)
    /\ hoverState' = NullIndex
    /\ UNCHANGED mounted
    /\ UNCHANGED derivation
    /\ UNCHANGED <<fetching, styling>>
Reload ==
    /\ mounted
    /\ refreshToken < MaxReloads
    /\ refreshToken' = NextToken(refreshToken)
    /\ gens' = [gens EXCEPT ![refreshToken] = Cleanup(@),
                            ![refreshToken'] = NewGen]
    /\ state' = LoadingState(state)
    /\ selectedIndex' = SelectionEffect(state'.data, selectedIndex)
    /\ UNCHANGED <<mounted, hoverState>>
    /\ UNCHANGED derivation
    /\ UNCHANGED <<fetching, styling>>

\* The consuming view unmounts: the effect's cleanup runs.
Unmount ==
    /\ mounted
    /\ mounted' = FALSE
    /\ gens' = [gens EXCEPT ![refreshToken] = Cleanup(@)]
    /\ UNCHANGED <<refreshToken, state, hoverState, selectedIndex>>
    /\ UNCHANGED derivation
    /\ UNCHANGED <<fetching, styling>>

\* The manifest fetch of generation g resolves; the continuation reads
\* manifest.generated_files (a TypeError on null) and issues the three data
\* fetches.
ManifestResolved(g) ==
    /\ gens[g].pc = "manifest"
    /\ \E shape \in ManifestShapes :
        LET manifest == Doc(Request(g, "manifest", gens[g].req["manifest"]), shape, 0)
        IN  IF shape = "null"
            THEN Catch(g, [gens[g] EXCEPT !.res["manifest"] = "resolved"],
                       FetchError(g, "manifest", "TypeError"))
            ELSE /\ gens' = [gens EXCEPT
                        ![g].pc = "files",
                        ![g].docs["manifest"] = manifest,
                        ![g].res = [f \in FileNames |->
                                      IF f = "manifest" THEN "resolved" ELSE "pending"],
                        ![g].req = [f \in FileNames |->
                                      IF f = "manifest" THEN @[f]
                                      ELSE FilePath(manifest, f)]]
                 /\ UNCHANGED <<state, selectedIndex>>
    /\ UNCHANGED <<refreshToken, mounted, hoverState>>
    /\ UNCHANGED derivation
    /\ UNCHANGED <<fetching, styling>>

\* The manifest fetch of generation g rejects: "failed" is an unsuccessful
\* HTTP status or an invalid JSON body, "abort" the AbortError of an aborted
\* signal.
ManifestRejected(g) ==
    /\ gens[g].pc = "manifest"
    /\ \E reason \in {"failed"} \cup (IF gens[g].aborted THEN {"abort"} ELSE {}) :
        Catch(g, [gens[g] EXCEPT !.res["manifest"] = "rejected"],
              FetchError(g, "manifest", reason))
    /\ UNCHANGED <<refreshToken, mounted, hoverState>>
    /\ UNCHANGED derivation
    /\ UNCHANGED <<fetching, styling>>

\* One of the three data fetches of generation g resolves.  When it is the
\* last one, Promise.all resolves and the continuation commits the snapshot.
FileResolved(g, f) ==
    /\ gens[g].pc = "files"
    /\ gens[g].res[f] = "pending"
    /\ \E count \in (IF f = "nodes" THEN 0..MaxNodes ELSE {0}) :
        LET doc == Doc(Request(g, f, gens[g].req[f]), "na", count)
            docs == [gens[g].docs EXCEPT ![f] = doc]
            res == [gens[g].res EXCEPT ![f] = "resolved"]
            got == [gens[g] EXCEPT !.docs = docs, !.res = res]
        IN  IF \E h \in DataFiles : res[h] = "pending"
            THEN /\ gens' = [gens EXCEPT ![g] = got]
                 /\ UNCHANGED <<state, selectedIndex>>
            ELSE IF DiscardSuccess(g)
            THEN /\ gens' = [gens EXCEPT ![g] = Returned(got, "discarded")]
                 /\ UNCHANGED <<state, selectedIndex>>
            ELSE /\ gens' = [gens EXCEPT ![g] = Returned(got, "ready")]
                 /\ state' = ReadyState(processPackage(docs["manifest"], docs["nodes"],
                                                       docs["edges"], docs["species"]))
                 /\ selectedIndex' = SelectionEffect(state'.data, selectedIndex)
    /\ UNCHANGED <<refreshToken, mounted, hoverState>>
    /\ UNCHANGED derivation
    /\ UNCHANGED <<fetching, styling>>

\* One of the three data fetches of generation g rejects while Promise.all is
\* pending: Promise.all rejects with that error.
FileRejected(g, f) ==
    /\ gens[g].pc = "files"
    /\ gens[g].res[f] = "pending"
    /\ \E reason \in {"failed"} \cup (IF gens[g].aborted THEN {"abort"} ELSE {}) :
        Catch(g, [gens[g] EXCEPT !.res[f] = "rejected"], FetchError(g, f, reason))
    /\ UNCHANGED <<refreshToken, mounted, hoverState>>
    /\ UNCHANGED derivation
    /\ UNCHANGED <<fetching, styling>>

\* A data fetch settles, either way, after Promise.all has already rejected:
\* its outcome is ignored.
FileSettledLate(g, f) ==
    /\ gens[g].pc = "returned"
    /\ gens[g].res[f] = "pending"
    /\ gens' = [gens EXCEPT ![g].res[f] = "ignored"]
    /\ UNCHANGED <<refreshToken, state, mounted, hoverState, selectedIndex>>
    /\ UNCHANGED derivation
    /\ UNCHANGED <<fetching, styling>>

\* onPointerMove on the instanced mesh: instanceId is a node index.
PointerMove(i) ==
    /\ mounted /\ CanvasRendered
    /\ i < state.data.count
    /\ hoverState' = i
    /\ UNCHANGED <<refreshToken, state, gens, mounted, selectedIndex>>
    /\ UNCHANGED derivation
    /\ UNCHANGED <<fetching, styling>>

\* onPointerOut
PointerOut ==
    /\ mounted /\ CanvasRendered
    /\ hoverState' = NullIndex
    /\ UNCHANGED <<refreshToken, state, gens, mounted, selectedIndex>>
    /\ UNCHANGED derivation
    /\ UNCHANGED <<fetching, styling>>

\* onClick on the instanced mesh
Click(i) ==
    /\ mounted /\ CanvasRendered
    /\ i < state.data.count
    /\ selectedIndex' = SelectionEffect(state.data, i)
    /\ UNCHANGED <<refreshToken, state, gens, mounted, hoverState>>
    /\ UNCHANGED derivation
    /\ UNCHANGED <<fetching, styling>>

\* onPointerMissed of the canvas: a click clears the selection, every missed
\* event clears the hover.
PointerMissed(click) ==
    /\ mounted /\ CanvasRendered
    /\ selectedIndex' = SelectionEffect(state.data, IF click THEN NullIndex ELSE selectedIndex)
    /\ hoverState' = NullIndex
    /\ UNCHANGED <<refreshToken, state, gens, mounted>>
    /\ UNCHANGED derivation
    /\ UNCHANGED <<fetching, styling>>

Next ==
    \/ Reload
    \/ Unmount
    \/ \E g \in Gens : ManifestResolved(g)
    \/ \E g \in Gens : ManifestRejected(g)
    \/ \E g \in Gens, f \in DataFiles : FileResolved(g, f)
    \/ \E g \in Gens, f \in DataFiles : FileRejected(g, f)
    \/ \E g \in Gens, f \in DataFiles : FileSettledLate(g, f)
    \/ \E i \in 0..(MaxNodes - 1) : PointerMove(i)
    \/ PointerOut
    \/ \E i \in 0..(MaxNodes - 1) : Click(i)
    \/ \E click \in BOOLEAN : PointerMissed(click)

Spec == Init /\ [][Next]_vars

\* ======================================================== claims C1..C10
\* A generation that a reload() has superseded.
Superseded(g) == g < refreshToken

\* The async function of generation g finishes in this step.
Finishes(g) == gens[g].pc # "returned" /\ gens'[g].pc = "returned"

\* C1: once reload() has superseded generation g, no step of g (a success or
\* a failure of any of its fetches, whenever it arrives) changes the
\* observable state; apart from reload() itself, the state is written only
\* by the current generation, when its async function finishes.
C1_SupersededNeverWrites ==
    [][/\ \A g \in Gens : (Superseded(g) /\ gens'[g] # gens[g]) => state' = state
       /\ (state' # state /\ refreshToken' = refreshToken) => Finishes(refreshToken)]_vars

\* C1 witness: generation 0 was superseded while in flight, generation 1
\* committed its snapshot, and the successful completion of generation 0
\* arrived afterwards and was discarded.
C1_Witness ==
    /\ refreshToken = 1
    /\ gens[0].exit = "discarded"
    /\ gens[1].exit = "ready"
    /\ state.status = "ready"
    /\ state.data.manifest.signal = 1

\* C2: when the async function of a cancelled generation (cancelled by
\* reload() or by unmounting) finishes, status, data and error stay as they
\* are; and an error is committed only by a generation that was not cancelled.
C2_CancelledNeverErrors ==
    [][/\ \A g \in Gens : (gens[g].aborted /\ Finishes(g)) => state' = state
       /\ (state'.status = "error" /\ state.status # "error")
            => ~gens[state'.error.gen].aborted]_vars

\* C2 witness: a load cancelled by reload() and a load cancelled by unmounting
\* have both had a fetch rejected, and the status is not 'error'.
C2_Witness ==
    /\ ~mounted
    /\ refreshToken = 1
    /\ gens[0].exit = "swallowed"
    /\ gens[1].exit = "swallowed"
    /\ state.status = "loading"

\* The status transitions the controller may take.
Transitions ==
    {<<"loading", "ready">>, <<"loading", "error">>,
     <<"ready", "loading">>, <<"error", "loading">>}

\* C3: status starts as 'loading'; it changes only along loading->ready,
\* loading->error, ready->loading and error->loading, the last two only in a
\* reload(); while the status stays 'ready' the snapshot stays the same.
C3_StatusTransitions ==
    /\ state.status = "loading"
    /\ [][/\ state'.status # state.status
               => <<state.status, state'.status>> \in Transitions
          /\ (state'.status # state.status /\ state'.status = "loading")
               => refreshToken' = refreshToken + 1
          /\ (state.status = "ready" /\ state'.status = "ready")
               => state'.data = state.data]_vars

\* C3 witness: loading -> error -> loading -> ready has been taken.
C3_Witness ==
    /\ refreshToken = 1
    /\ gens[0].exit = "error"
    /\ gens[1].exit = "ready"
    /\ state.status = "ready"

\* C4 as stated: in every state with status 'loading' the data is null.
C4_DataNullWhileLoading == state.status = "loading" => state.data = NullData

\* C4 as amended: entering or staying in 'loading' leaves the data as it was:
\* null on the initial load and after an error, the previous snapshot after a
\* reload() from 'ready'.
C4_LoadingKeepsData ==
    /\ state.data = NullData
    /\ [][state'.status = "loading" => state'.data = state.data]_vars

\* C4 witness: status 'loading' entered by reload() from 'ready', the snapshot
\* of the previous generation still the observable data.
C4_Witness ==
    /\ state.status = "loading"
    /\ state.data # NullData
    /\ refreshToken = 1
    /\ gens[0].exit = "ready"

\* C5: when a fetch of the current, not cancelled generation rejects while
\* its async function awaits it, the step commits status 'error' with data
\* null and that error; the state then stays as it is until the next
\* reload(), whatever the generation's other fetches do; and a generation
\* that committed 'ready' had all four fetches resolve.
C5_FailureAbortsLoad ==
    [][/\ \A f \in FileNames :
            ( /\ refreshToken' = refreshToken
              /\ gens[refreshToken].pc # "returned"
              /\ ~gens[refreshToken].aborted
              /\ gens[refreshToken].res[f] = "pending"
              /\ gens'[refreshToken].res[f] = "rejected" )
            => /\ state'.status = "error"
               /\ state'.data = NullData
               /\ state'.error = FetchError(refreshToken, f, state'.error.reason)
       /\ (state.status = "error" /\ refreshToken' = refreshToken) => state' = state
       /\ \A g \in Gens :
            gens'[g].exit = "ready" => \A f \in FileNames : gens'[g].res[f] = "resolved"]_vars

\* C5 witness: the nodes fetch failed while a snapshot was shown; status is
\* 'error' with data null, and another fetch of the same generation settled
\* after the failure.
C5_Witness ==
    /\ mounted
    /\ refreshToken = 1
    /\ gens[0].exit = "ready"
    /\ state.status = "error"
    /\ state.data = NullData
    /\ state.error = FetchError(1, "nodes", "failed")
    /\ gens[1].res["edges"] = "ignored"

\* C6: the four documents of a committed snapshot are the manifest, nodes,
\* edges and species documents fetched under the signal of one generation,
\* the generation that committed 'ready'.
C6_SnapshotFromOneGeneration ==
    state.data # NullData =>
        LET d == state.data
        IN  /\ \A f \in FileNames : d[f].kind = "doc" /\ d[f].file = f
            /\ \A f \in FileNames : d[f].signal = d.manifest.signal
            /\ gens[d.manifest.signal].exit = "ready"

\* C6 witness: the snapshot of generation 1 is committed although generation
\* 0, superseded, never finished and still holds documents of its own.
C6_Witness ==
    /\ state.data # NullData
    /\ state.data.manifest.signal = 1
    /\ gens[0].pc = "files"
    /\ gens[0].docs["nodes"] # NoDoc

\* The generations whose load is active: flag set, signal not aborted.
ActiveGens == {g \in Gens : gens[g].active /\ ~gens[g].aborted}

\* C7: the generation counter changes only by +1; at most one generation is
\* active; a generation starts only in a step that leaves every earlier
\* generation deactivated and aborted.
C7_OneActiveGeneration ==
    /\ [](Cardinality(ActiveGens) <= 1)
    /\ [][/\ refreshToken' # refreshToken => refreshToken' = refreshToken + 1
          /\ \A g \in Gens :
                (gens[g].pc = "idle" /\ gens'[g].pc # "idle")
                => /\ refreshToken' = g
                   /\ \A h \in 0..(g - 1) : ~gens'[h].active /\ gens'[h].aborted]_vars

\* C7 witness: generation 1 is the active one while generation 0, cancelled,
\* is still in flight.
C7_Witness ==
    /\ refreshToken = 1
    /\ ActiveGens = {1}
    /\ gens[0].pc = "files"
    /\ gens[0].aborted

\* C8: the three data fetches are issued together, in the step in which the
\* manifest fetch resolves, at the locations the manifest names (or the
\* defaults), and are then all in flight; while the manifest fetch is pending
\* or after it failed none of them has been issued.
C8_ManifestFirst ==
    /\ [](\A g \in Gens :
            /\ (\E f \in DataFiles : gens[g].req[f] # "unissued")
                 => /\ gens[g].res["manifest"] = "resolved"
                    /\ \A f \in DataFiles : gens[g].req[f] # "unissued"
            /\ gens[g].res["manifest"] \in {"unissued", "pending", "rejected"}
                 => \A f \in DataFiles :
                        gens[g].req[f] = "unissued" /\ gens[g].res[f] = "unissued"
            /\ gens[g].pc = "files"
                 => \A f \in DataFiles :
                        gens[g].req[f] =
                            IF gens[g].docs["manifest"].shape = "named"
                            THEN NamedPath(f) ELSE DefaultPath(f))
    /\ [][\A g \in Gens :
            (\E f \in DataFiles : gens[g].req[f] = "unissued" /\ gens'[g].req[f] # "unissued")
            => /\ gens[g].res["manifest"] = "pending"
               /\ gens'[g].res["manifest"] = "resolved"
               /\ \A f \in DataFiles : gens'[g].res[f] = "pending"]_vars

\* C8 witness: a manifest that names the files has resolved and the three
\* data fetches are in flight at once.
C8_Witness ==
    \E g \in Gens :
        /\ gens[g].pc = "files"
        /\ gens[g].docs["manifest"].shape = "named"
        /\ \A f \in DataFiles : gens[g].res[f] = "pending" /\ gens[g].req[f] = NamedPath(f)

\* C9: error is non-null exactly in status 'error'; status 'ready' comes with
\* a snapshot; status 'error' comes with data null.
C9_StateShape ==
    /\ state.error # NullError <=> state.status = "error"
    /\ state.status = "ready" => state.data.kind = "snapshot"
    /\ state.status = "error" => state.data = NullData

\* C9 witness: status 'loading' entered by reload() from 'error': the error
\* payload of the failed generation has been cleared.
C9_Witness ==
    /\ refreshToken = 1
    /\ gens[0].exit = "error"
    /\ state = InitialState

\* C10 as stated: whenever a load completes and its snapshot becomes the
\* observable data, the selection and the hover are both null afterwards.
C10_NewSnapshotResetsInteraction ==
    [][(state'.status = "ready" /\ state.status # "ready")
         => (selectedIndex' = NullIndex /\ hoverState' = NullIndex)]_vars

\* ================================================================= C11
\* C11: whenever the data of the next state is null, or is a snapshot whose
\* node count is <= the current selection index, the selection is null in the
\* next state; hence a non-null selection index is always < data.nodes.length.
C11_SelectionWithinSnapshot ==
    /\ [](selectedIndex # NullIndex
            => (state.data # NullData /\ selectedIndex >= 0
                /\ selectedIndex < state.data.count))
    /\ [][/\ state'.data = NullData => selectedIndex' = NullIndex
          /\ (selectedIndex # NullIndex /\ state'.data # NullData
              /\ state'.data.count <= selectedIndex)
               => selectedIndex' = NullIndex]_vars

\* C11 witness: generation 1 replaced a snapshot of at least two nodes (the
\* hover still points at index 1) by a snapshot of one node, and the
\* selection is null.
C11_Witness ==
    /\ refreshToken = 1
    /\ gens[0].exit = "ready"
    /\ gens[1].exit = "ready"
    /\ state.data.count = 1
    /\ hoverState = 1
    /\ selectedIndex = NullIndex

\* ==================================================== processPackage, in full
\* The derivation of one snapshot from one package, as the code computes it.
\* JavaScript arrays and typed arrays are sequences; the element at JavaScript
\* index i is the (i + 1)-th element.
At(array, i) == array[i + 1]

\* A number of the form n / d, in lowest terms with d > 0.
RECURSIVE Gcd(_, _)
Gcd(a, b) == IF b = 0 THEN a ELSE Gcd(b, a % b)
Abs(n) == IF n < 0 THEN -n ELSE n
Q(n, d) == LET g == Gcd(Abs(n), d) IN [num |-> n \div g, den |-> d \div g]

\* Storing a number in a Float32Array rounds it to single precision. The
\* rounded value is kept symbolically: fround(v) is equal to fround(w) only
\* for v = w, which is so for the numbers that occur here.
fround(v) == [f32 |-> v]

\* const DISPLAY_GLOBAL_SCALE = 0.95, as 95 / 100.
DISPLAY_GLOBAL_SCALE == Q(95, 100)

\* ---------------------------------------------------------------- values
\* A property of a node that is undefined or null.
Absent == [kind |-> "absent"]
\* An object {x, y, z}; nonfinite names the components that are not finite
\* numbers (NaN, Infinity, a string, or missing).
Vec(x, y, z, nonfinite) ==
    [kind |-> "object", x |-> x, y |-> y, z |-> z, nonfinite |-> nonfinite]

CoordFields == <<"position_cloud", "position", "position_tsne", "position_raw">>
CoordFieldSet == {CoordFields[i] : i \in DOMAIN CoordFields}

\* node[field]: only the four coordinate properties of a node can be objects,
\* every other property reads as a value isVec3 rejects.
Prop(node, field) == IF field \in CoordFieldSet THEN node[field] ELSE Absent

\* function isVec3(value)
isVec3(value) ==
    /\ value.kind = "object"
    /\ "x" \notin value.nonfinite
    /\ "y" \notin value.nonfinite
    /\ "z" \notin value.nonfinite

\* The first element of a sequence that satisfies isVec3, or `otherwise`.
RECURSIVE FirstVec3(_, _)
FirstVec3(candidates, otherwise) ==
    IF candidates = <<>> THEN otherwise
    ELSE IF isVec3(Head(candidates)) THEN Head(candidates)
    ELSE FirstVec3(Tail(candidates), otherwise)

\* The first field of a sequence whose value on the sample satisfies isVec3.
RECURSIVE FirstField(_, _, _)
FirstField(sample, fields, otherwise) ==
    IF fields = <<>> THEN otherwise
    ELSE IF isVec3(Prop(sample, Head(fields))) THEN Head(fields)
    ELSE FirstField(sample, Tail(fields), otherwise)

\* manifest?.display_coordinates?.default_field; "" is a value that
\* filter(Boolean) removes (undefined, null or the empty string).
NoField == ""
EmptySample ==
    [f \in CoordFieldSet |-> Absent]

\* function chooseDisplayField(manifest, nodes)
chooseDisplayFieldIgnoresManifest(manifest, nodes) ==
    LET sample == IF nodes = <<>> THEN EmptySample ELSE At(nodes, 0)
    IN FirstField(sample, CoordFields, "position")
chooseDisplayField(manifest, nodes) ==
    LET sample == IF nodes = <<>> THEN EmptySample ELSE At(nodes, 0)
        candidates == (IF manifest.default_field = NoField THEN <<>>
                       ELSE <<manifest.default_field>>) \o CoordFields
    IN FirstField(sample, candidates, "position")

\* function getDisplayPosition(node, field)
Origin == Vec(0, 0, 0, {})
getDisplayPositionNoFallback(node, field) ==
    FirstVec3(<<Prop(node, field)>>, Origin)
getDisplayPosition(node, field) ==
    FirstVec3(<<Prop(node, field), node.position_cloud, node.position,
                node.position_tsne, node.position_raw>>, Origin)

\* function stylizeDisplayPosition(position) with DISPLAY_SHAPE_MODE 'freeform',
\* its value without VITE_DISPLAY_SHAPE_MODE in the build; the argument always
\* satisfies isVec3, so `?? 0` never applies.
Times(n, q) == Q(n * q.num, q.den)
stylizeDisplayPosition(position) ==
    [x |-> Times(position.x, DISPLAY_GLOBAL_SCALE),
     y |-> Times(position.y, DISPLAY_GLOBAL_SCALE),
     z |-> Times(position.z, DISPLAY_GLOBAL_SCALE)]

\* ---------------------------------------------------------------- colours
\* A string is the sequence of its characters.
HexDigits == <<"0", "1", "2", "3", "4", "5", "6", "7",
               "8", "9", "a", "b", "c", "d", "e", "f">>
IsHexDigit(c) == \E i \in DOMAIN HexDigits : HexDigits[i] = c
HexValue(c) == (CHOOSE i \in DOMAIN HexDigits : HexDigits[i] = c) - 1

\* String.prototype.replace('#', ''): removes the first '#'.
RECURSIVE RemoveFirstHash(_)
RemoveFirstHash(chars) ==
    IF chars = <<>> THEN <<>>
    ELSE IF Head(chars) = "#" THEN Tail(chars)
    ELSE <<Head(chars)>> \o RemoveFirstHash(Tail(chars))

\* split('').map((char) => char + char).join('')
RECURSIVE DoubleChars(_)
DoubleChars(chars) ==
    IF chars = <<>> THEN <<>>
    ELSE <<Head(chars), Head(chars)>> \o DoubleChars(Tail(chars))

\* Number.parseInt(full, 16) on strings without sign, blank or 0x prefix:
\* the value of the longest prefix of hexadecimal digits, NaN if it is empty.
NaN == [kind |-> "NaN"]
RECURSIVE HexPrefixValue(_, _)
HexPrefixValue(chars, value) ==
    IF chars = <<>> \/ ~IsHexDigit(Head(chars)) THEN value
    ELSE HexPrefixValue(Tail(chars), value * 16 + HexValue(Head(chars)))
parseInt16(chars) ==
    IF chars = <<>> \/ ~IsHexDigit(Head(chars)) THEN NaN
    ELSE [kind |-> "number", value |-> HexPrefixValue(chars, 0)]

\* return [0.07, 0.07, 0.07]
NaNColor == <<Q(7, 100), Q(7, 100), Q(7, 100)>>

\* function hexToRgb01(hex); the strings have at most six digits, so the
\* 32-bit shifts and masks are plain divisions and remainders.
hexToRgb01(hex) ==
    LET normalized == RemoveFirstHash(hex)
        full == IF Len(normalized) = 3 THEN DoubleChars(normalized)
                ELSE normalized
        parsed == parseInt16(full)
    IN IF parsed = NaN THEN NaNColor
       ELSE <<Q((parsed.value \div 65536) % 256, 255),
              Q((parsed.value \div 256) % 256, 255),
              Q(parsed.value % 256, 255)>>

\* '#111111', the default of `?.color?.hex ?? '#111111'`.
DefaultColorHex == <<"#", "1", "1", "1", "1", "1", "1">>

\* new Map(species.map((entry) => [entry.species, entry])).get(key): the last
\* entry of that species, or Absent.
RECURSIVE speciesByKey(_, _)
speciesByKey(species, key) ==
    IF species = <<>> THEN Absent
    ELSE IF species[Len(species)].species = key THEN species[Len(species)]
    ELSE speciesByKey(SubSeq(species, 1, Len(species) - 1), key)

\* speciesByKey.get(node.species)?.color?.hex ?? '#111111'
colorHex(species, node) ==
    LET entry == speciesByKey(species, node.species)
    IN IF entry = Absent THEN DefaultColorHex
       ELSE IF entry.color = Absent THEN DefaultColorHex
       ELSE IF entry.color.hex = Absent THEN DefaultColorHex
       ELSE entry.color.hex.chars

\* ------------------------------------------------------------------ nodes
\* [...nodes].sort((a, b) => a.id - b.id): a stable sort, as an insertion sort.
RECURSIVE SortById(_)
SortById(nodes) ==
    IF nodes = <<>> THEN <<>>
    ELSE LET sorted == SortById(SubSeq(nodes, 1, Len(nodes) - 1))
             node == nodes[Len(nodes)]
             k == Cardinality({i \in DOMAIN sorted : sorted[i].id <= node.id})
         IN SubSeq(sorted, 1, k) \o <<node>> \o SubSeq(sorted, k + 1, Len(sorted))

sortedNodesUnsorted(nodes, displayField) ==
    [i \in DOMAIN nodes |->
        [node |-> nodes[i],
         id |-> nodes[i].id,
         displayPosition |->
             stylizeDisplayPosition(getDisplayPosition(nodes[i], displayField))]]
\* const sortedNodes = [...nodes].sort(...).map(...): each node with its
\* displayPosition; node keeps the properties of the raw node.
sortedNodes(nodes, displayField) ==
    LET sorted == SortById(nodes)
    IN [i \in DOMAIN sorted |->
           [node |-> sorted[i],
            id |-> sorted[i].id,
            displayPosition |->
                stylizeDisplayPosition(getDisplayPosition(sorted[i], displayField))]]

\* sortedNodes.forEach((node, index) => indexById.set(node.id, index)): a Map
\* as a function on its keys; a later set of the same key replaces the value.
indexByIdReversed(sorted) ==
    [id \in {sorted[i].id : i \in DOMAIN sorted} |->
        Len(sorted) - (CHOOSE i \in DOMAIN sorted :
            /\ sorted[i].id = id
            /\ \A j \in DOMAIN sorted : sorted[j].id = id => j <= i)]
indexById(sorted) ==
    [id \in {sorted[i].id : i \in DOMAIN sorted} |->
        (CHOOSE i \in DOMAIN sorted :
            /\ sorted[i].id = id
            /\ \A j \in DOMAIN sorted : sorted[j].id = id => j <= i) - 1]

\* indexById.get(id): NullIndex stands for undefined.
MapGet(map, id) == IF id \in DOMAIN map THEN map[id] ELSE NullIndex

\* The positions buffer: three components per node, in node order.
positionsOf(sorted) ==
    [k \in 1..(3 * Len(sorted)) |->
        LET p == sorted[((k - 1) \div 3) + 1].displayPosition
        IN fround(CASE (k - 1) % 3 = 0 -> p.x
                    [] (k - 1) % 3 = 1 -> p.y
                    [] OTHER -> p.z)]

\* The colors buffer: three components per node, in node order.
colorsOf(sorted, species) ==
    [k \in 1..(3 * Len(sorted)) |->
        fround(hexToRgb01(colorHex(species, sorted[((k - 1) \div 3) + 1].node))
                   [((k - 1) % 3) + 1])]

\* ------------------------------------------------------------------ edges
\* if (sourceIndex == null || targetIndex == null) continue
SkipsEdgeFalsy(sourceIndex, targetIndex) ==
    \/ sourceIndex = NullIndex \/ sourceIndex = 0
    \/ targetIndex = NullIndex \/ targetIndex = 0
SkipsEdge(sourceIndex, targetIndex) ==
    sourceIndex = NullIndex \/ targetIndex = NullIndex

\* const normalized = { ...edge, sourceIndex, targetIndex }
NormalizedSwapped(edge, sourceIndex, targetIndex) ==
    [source |-> edge.source, target |-> edge.target, extra |-> edge.extra,
     sourceIndex |-> targetIndex, targetIndex |-> sourceIndex]
Normalized(edge, sourceIndex, targetIndex) ==
    [source |-> edge.source, target |-> edge.target, extra |-> edge.extra,
     sourceIndex |-> sourceIndex, targetIndex |-> targetIndex]

\* edgesByNodeIndex[sourceIndex].push(normalized);
\* edgesByNodeIndex[targetIndex].push(normalized)
PushBothSourceOnly(lists, normalized) ==
    [lists EXCEPT ![normalized.sourceIndex + 1] = Append(@, normalized)]
PushBoth(lists, normalized) ==
    LET afterSource ==
            [lists EXCEPT ![normalized.sourceIndex + 1] = Append(@, normalized)]
    IN [afterSource EXCEPT ![normalized.targetIndex + 1] = Append(@, normalized)]

\* The six assignments baseEdgePositions[edgeCursor + k] = positions[...].
WriteSegment(buffer, edgeCursor, positions, sourceOffset, targetOffset) ==
    [k \in DOMAIN buffer |->
        IF k - 1 \in edgeCursor..(edgeCursor + 2)
        THEN At(positions, sourceOffset + (k - 1 - edgeCursor))
        ELSE IF k - 1 \in (edgeCursor + 3)..(edgeCursor + 5)
        THEN At(positions, targetOffset + (k - 1 - edgeCursor - 3))
        ELSE buffer[k]]

\* One iteration of `for (const edge of edges)`.
EdgeStep(loop, edge, map, positions) ==
    LET sourceIndex == MapGet(map, edge.source)
        targetIndex == MapGet(map, edge.target)
        normalized == Normalized(edge, sourceIndex, targetIndex)
    IN IF SkipsEdge(sourceIndex, targetIndex) THEN loop
       ELSE [baseEdgePositions |->
                 WriteSegment(loop.baseEdgePositions, loop.edgeCursor,
                              positions, sourceIndex * 3, targetIndex * 3),
             normalizedEdges |-> Append(loop.normalizedEdges, normalized),
             edgesByNodeIndex |-> PushBoth(loop.edgesByNodeIndex, normalized),
             edgeCursor |-> loop.edgeCursor + 6]

\* The state of the loop after the first n edges; before the first one,
\* edgesByNodeIndex holds an empty list per node and baseEdgePositions is
\* new Float32Array(edges.length * 6), all zeros.
RECURSIVE EdgeLoop(_, _, _, _, _)
EdgeLoop(edges, n, count, map, positions) ==
    IF n = 0
    THEN [baseEdgePositions |-> [k \in 1..(Len(edges) * 6) |-> fround(Q(0, 1))],
          normalizedEdges |-> <<>>,
          edgesByNodeIndex |-> [i \in 1..count |-> <<>>],
          edgeCursor |-> 0]
    ELSE EdgeStep(EdgeLoop(edges, n - 1, count, map, positions),
                  edges[n], map, positions)

\* edgeCursor === baseEdgePositions.length
\*     ? baseEdgePositions : baseEdgePositions.slice(0, edgeCursor)
TrimmedNever(buffer, edgeCursor) == buffer
Trimmed(buffer, edgeCursor) ==
    IF edgeCursor = Len(buffer) THEN buffer ELSE SubSeq(buffer, 1, edgeCursor)

\* ----------------------------------------------------------------- legend
\* The characters of a species key.
KeyChars(key) ==
    CASE key = "homo_sapiens" ->
             <<"h", "o", "m", "o", "_", "s", "a", "p", "i", "e", "n", "s">>
      [] key = "mus_musculus" ->
             <<"m", "u", "s", "_", "m", "u", "s", "c", "u", "l", "u", "s">>
      [] OTHER -> <<>>

\* match.toUpperCase() on one character.
toUpperCase(c) ==
    LET lower == <<"a", "c", "e", "h", "i", "l", "m", "n", "o", "p", "s", "u">>
        upper == <<"A", "C", "E", "H", "I", "L", "M", "N", "O", "P", "S", "U">>
    IN IF \E i \in DOMAIN lower : lower[i] = c
       THEN upper[CHOOSE i \in DOMAIN lower : lower[i] = c]
       ELSE c

\* .replace(/_/g, ' ')
UnderscoresToSpaces(chars) ==
    [i \in DOMAIN chars |-> IF chars[i] = "_" THEN " " ELSE chars[i]]
\* .replace(/\b\w/g, (match) => match.toUpperCase()): a word character that
\* starts the string or follows a non-word character is upper-cased; of the
\* characters that occur, ' ' is the one that is not a word character.
CapitalizeWords(chars) ==
    [i \in DOMAIN chars |->
        IF chars[i] # " " /\ (i = 1 \/ chars[i - 1] = " ")
        THEN toUpperCase(chars[i]) ELSE chars[i]]
\* function prettifySpeciesName(value)
prettifySpeciesName(value) == CapitalizeWords(UnderscoresToSpaces(KeyChars(value)))

\* [...species].sort((a, b) => b.count - a.count): a stable sort of a copy.
RECURSIVE SortByCount(_)
SortByCount(species) ==
    IF species = <<>> THEN <<>>
    ELSE LET sorted == SortByCount(SubSeq(species, 1, Len(species) - 1))
             entry == species[Len(species)]
             k == Cardinality({i \in DOMAIN sorted : sorted[i].count >= entry.count})
         IN SubSeq(sorted, 1, k) \o <<entry>> \o SubSeq(sorted, k + 1, Len(sorted))

\* .map((entry) => ({ ...entry, label: prettifySpeciesName(entry.species) }))
Labelled(entry) ==
    [species |-> entry.species, count |-> entry.count, color |-> entry.color,
     label |-> prettifySpeciesName(entry.species)]
speciesLegendUnsorted(species) ==
    [i \in DOMAIN species |-> Labelled(species[i])]
speciesLegend(species) ==
    LET sorted == SortByCount(species)
    IN [i \in DOMAIN sorted |-> Labelled(sorted[i])]

\* The arrays passed to processPackage, as they are after the call: both sorts
\* act on copies ([...nodes], [...species]) and both maps build new objects.
ArgumentsSortedInPlace(pkg) ==
    [pkg EXCEPT !.nodes = SortById(pkg.nodes),
                !.species = SortByCount(pkg.species)]
ArgumentsAfter(pkg) == pkg

\* function processPackage({ manifest, nodes, edges, species }), on the
\* parsed documents themselves.
derive(pkg) ==
    LET displayField == chooseDisplayField(pkg.manifest, pkg.nodes)
        sorted == sortedNodes(pkg.nodes, displayField)
        map == indexById(sorted)
        positions == positionsOf(sorted)
        loop == EdgeLoop(pkg.edges, Len(pkg.edges), Len(sorted), map, positions)
    IN [kind |-> "snapshot",
        manifest |-> pkg.manifest,
        displayField |-> displayField,
        nodes |-> sorted,
        edges |-> loop.normalizedEdges,
        species |-> pkg.species,
        speciesLegend |-> speciesLegend(pkg.species),
        positions |-> positions,
        colors |-> colorsOf(sorted, pkg.species),
        baseEdgePositions |-> Trimmed(loop.baseEdgePositions, loop.edgeCursor),
        edgesByNodeIndex |-> loop.edgesByNodeIndex,
        indexById |-> map]

\* ------------------------------------------------- packages that are derived
MaxNodeCount == 3
MaxEdges == 2
MaxSpecies == 2

\* Node ids of nodes.json and endpoint ids of edges.json.
NodeIds == {0, 2, 5}
SpeciesKeys == {"homo_sapiens", "mus_musculus"}

\* The sequences of at most n elements of a set.
SeqsUpTo(S, n) == UNION {[1..k -> S] : k \in 0..n}
Injective(s) == \A i, j \in DOMAIN s : s[i] = s[j] => i = j

\* Coordinates that tell the node and the field they were read from apart.
FieldRank(field) == CHOOSE i \in DOMAIN CoordFields : CoordFields[i] = field
WellFormed(id, field) ==
    Vec(10 * id + FieldRank(field), -(id + 1), 20 * FieldRank(field), {})
Malformed(id, field) ==
    Vec(10 * id + FieldRank(field), -(id + 1), 20 * FieldRank(field), {"y"})
FieldValues(id, field) == {Absent, WellFormed(id, field), Malformed(id, field)}

\* A node of nodes.json: ids are unique integers.
Node(id, speciesKey, coords) ==
    [id |-> id, species |-> speciesKey,
     position_cloud |-> coords["position_cloud"],
     position |-> coords["position"],
     position_tsne |-> coords["position_tsne"],
     position_raw |-> coords["position_raw"]]
PlainNode(id) ==
    Node(id, "homo_sapiens",
         [f \in CoordFieldSet |-> IF f = "position" THEN WellFormed(id, f) ELSE Absent])

\* An edge of edges.json; extra stands for its opaque extra fields and
\* numbers the raw edges.
RawEdges(endpoints) ==
    [i \in DOMAIN endpoints |->
        [source |-> endpoints[i][1], target |-> endpoints[i][2], extra |-> i]]

\* color.hex values of species.json.
HexStrings ==
    { <<"#", "1", "1", "1", "1", "1", "1">>,
      <<"#", "f", "8", "0">>,
      <<"2", "0", "4", "0", "6", "0">>,
      <<"#", "z", "z", "z">>,
      <<"#", "1", "2", "z">>,
      <<>> }
ColorValues ==
    {Absent, [hex |-> Absent]}
        \cup {[hex |-> [kind |-> "string", chars |-> h]] : h \in HexStrings}
SpeciesEntries ==
    {[species |-> k, count |-> 1, color |-> c] : k \in SpeciesKeys, c \in ColorValues}
PlainSpecies ==
    <<[species |-> "homo_sapiens", count |-> 1,
       color |-> [hex |-> [kind |-> "string", chars |-> <<"#", "f", "8", "0">>]]]>>

DefaultFields == {NoField, "position_tsne", "position_raw", "embedding"}
Manifest(field) == [default_field |-> field]

\* A package whose nodes arrive in a given order and whose edges name given
\* ids.
GraphPackage(ids, endpoints) ==
    [manifest |-> Manifest(NoField),
     nodes |-> [i \in DOMAIN ids |-> PlainNode(ids[i])],
     edges |-> RawEdges(endpoints),
     species |-> PlainSpecies]

\* A package with a given species table.
ColorPackage(species) ==
    [manifest |-> Manifest(NoField),
     nodes |-> <<PlainNode(0), Node(2, "mus_musculus", PlainNode(2))>>,
     edges |-> RawEdges(<<>>),
     species |-> species]

\* A package whose species table has given counts.
LegendEntries ==
    {[species |-> k, count |-> n,
      color |-> [hex |-> [kind |-> "string", chars |-> <<"#", "f", "8", "0">>]]] :
        k \in SpeciesKeys, n \in {3, 7}}
LegendPackage(ids, species) ==
    [manifest |-> Manifest(NoField),
     nodes |-> [i \in DOMAIN ids |-> PlainNode(ids[i])],
     edges |-> RawEdges(<<>>),
     species |-> species]

\* A package whose nodes carry given coordinate fields.
CoordNodes(id) ==
    {Node(id, "homo_sapiens", coords) :
        coords \in {c \in [CoordFieldSet -> UNION {FieldValues(id, f) : f \in CoordFieldSet}] :
                        \A f \in CoordFieldSet : c[f] \in FieldValues(id, f)}}
FieldPackage(field, nodes) ==
    [manifest |-> Manifest(field),
     nodes |-> nodes,
     edges |-> RawEdges(<<<<0, 0>>>>),
     species |-> PlainSpecies]

\* The package is any graph package, any colour package, any legend package
\* of two nodes that arrive unsorted, or any field package
\* of at most two nodes, of which the one with the larger id arrives first.
InitDerive ==
    /\ refreshToken = 0
    /\ state = LoadingState(InitialState)
    /\ gens = [g \in Gens |-> IF g = 0 THEN NewGen ELSE IdleGen]
    /\ mounted = TRUE
    /\ hoverState = NullIndex
    /\ selectedIndex = NullIndex
    /\ snapshot = NoSnapshot
    /\ FetchingIdle
    /\ StylingIdle
    /\ \/ \E ids \in SeqsUpTo(NodeIds, MaxNodeCount) :
              /\ Injective(ids)
              /\ \E endpoints \in SeqsUpTo(NodeIds \X NodeIds, MaxEdges) :
                     package = GraphPackage(ids, endpoints)
       \/ \E species \in SeqsUpTo(SpeciesEntries, MaxSpecies) :
              package = ColorPackage(species)
       \/ \E species \in SeqsUpTo(LegendEntries, MaxSpecies + 1) :
              package = LegendPackage(<<5, 0>>, species)
       \/ \E field \in DefaultFields :
              \/ package = FieldPackage(field, <<>>)
              \/ \E first \in CoordNodes(0) :
                     package = FieldPackage(field, <<first>>)
              \/ \E first \in CoordNodes(2), second \in CoordNodes(0) :
                     package = FieldPackage(field, <<first, second>>)

\* data: processPackage({ manifest, nodes, edges, species })
Derive ==
    /\ snapshot = NoSnapshot
    /\ snapshot' = derive(package)
    /\ package' = ArgumentsAfter(package)
    /\ UNCHANGED <<refreshToken, state, gens, mounted, hoverState,
                   selectedIndex>>
    /\ UNCHANGED <<fetching, styling>>

NextDerive == Derive

SpecDerive == InitDerive /\ [][NextDerive]_vars

\* ======================================================= claims C12..C20
\* processPackage has run on the package.
Derived == snapshot # NoSnapshot

\* C12: in every derived snapshot the node list holds the nodes of the package
\* in ascending order of id: nodes[i].id < nodes[j].id whenever i < j.
C12_NodesAscendingById ==
    Derived =>
        /\ Len(snapshot.nodes) = Len(package.nodes)
        /\ {snapshot.nodes[i].node : i \in DOMAIN snapshot.nodes}
               = {package.nodes[i] : i \in DOMAIN package.nodes}
        /\ \A i, j \in DOMAIN snapshot.nodes :
               i < j => snapshot.nodes[i].id < snapshot.nodes[j].id

\* C12 witness: three nodes that arrived as 5, 0, 2 were derived as 0, 2, 5.
C12_Witness ==
    /\ Derived
    /\ [i \in DOMAIN package.nodes |-> package.nodes[i].id] = <<5, 0, 2>>
    /\ [i \in DOMAIN snapshot.nodes |-> snapshot.nodes[i].id] = <<0, 2, 5>>

\* The ids of the nodes of the package.
LoadedIds == {package.nodes[i].id : i \in DOMAIN package.nodes}
\* The indices of the derived node list.
NodeIndices == 0..(Len(snapshot.nodes) - 1)
Ids(nodes) == [i \in DOMAIN nodes |-> nodes[i].id]
Range(s) == {s[i] : i \in DOMAIN s}

\* C13: in every derived snapshot indexById is a bijection between the node
\* ids and the positions of the sorted list: indexById.get(nodes[i].id) = i for
\* every i, and the map has exactly nodes.length entries.
C13_IndexByIdBijection ==
    Derived =>
        /\ \A i \in NodeIndices :
               MapGet(snapshot.indexById, At(snapshot.nodes, i).id) = i
        /\ Cardinality(DOMAIN snapshot.indexById) = Len(snapshot.nodes)

\* C13 witness: nodes that arrived as 5, 2, 0 are indexed 5 -> 2, 2 -> 1, 0 -> 0.
C13_Witness ==
    /\ Derived
    /\ Ids(package.nodes) = <<5, 2, 0>>
    /\ snapshot.indexById[5] = 2
    /\ snapshot.indexById[2] = 1
    /\ snapshot.indexById[0] = 0

\* C14: every edge of a derived snapshot has sourceIndex and targetIndex that
\* are valid indices of the node list, index 0 included, and its source and
\* target ids are the ids of the nodes at those indices.
C14_EdgeIndicesResolve ==
    Derived =>
        \A k \in DOMAIN snapshot.edges :
            LET edge == snapshot.edges[k]
            IN /\ edge.sourceIndex \in NodeIndices
               /\ edge.targetIndex \in NodeIndices
               /\ edge.source = package.edges[edge.extra].source
               /\ edge.target = package.edges[edge.extra].target
               /\ At(snapshot.nodes, edge.sourceIndex).id = edge.source
               /\ At(snapshot.nodes, edge.targetIndex).id = edge.target

\* C14 witness: with nodes arriving as 5, 0 the edge 0 -> 5 is kept with
\* sourceIndex 0 and targetIndex 1.
C14_Witness ==
    /\ Derived
    /\ Ids(package.nodes) = <<5, 0>>
    /\ Len(snapshot.edges) = 1
    /\ snapshot.edges[1].source = 0
    /\ snapshot.edges[1].target = 5
    /\ snapshot.edges[1].sourceIndex = 0
    /\ snapshot.edges[1].targetIndex = 1

\* The raw edge an edge of the snapshot was made from.
RawOf(edge) == [source |-> edge.source, target |-> edge.target, extra |-> edge.extra]
BothLoaded(edge) == edge.source \in LoadedIds /\ edge.target \in LoadedIds

\* C15: the edges of a derived snapshot are exactly the raw edges whose source
\* and target are both ids of loaded nodes, in their original order; an edge
\* with a missing endpoint is in none of edges, edgesByNodeIndex and
\* baseEdgePositions.
C15_EdgeRetention ==
    Derived =>
        /\ [k \in DOMAIN snapshot.edges |-> RawOf(snapshot.edges[k])]
               = SelectSeq(package.edges, BothLoaded)
        /\ \A i \in DOMAIN snapshot.edgesByNodeIndex :
               \A k \in DOMAIN snapshot.edgesByNodeIndex[i] :
                   BothLoaded(snapshot.edgesByNodeIndex[i][k])
        /\ Len(snapshot.baseEdgePositions)
               = 6 * Len(SelectSeq(package.edges, BothLoaded))

\* C15 witness: of the raw edges 0 -> 5 and 2 -> 0 over the nodes 2, 0 the
\* first is dropped and the second is kept.
C15_Witness ==
    /\ Derived
    /\ Ids(package.nodes) = <<2, 0>>
    /\ Len(package.edges) = 2
    /\ ~BothLoaded(package.edges[1])
    /\ Len(snapshot.edges) = 1
    /\ snapshot.edges[1].extra = 2
    /\ snapshot.edges[1].targetIndex = 0

\* C16: baseEdgePositions has 6 components per kept edge, and components
\* 6k..6k+5 are the positions-buffer coordinates of the k-th kept edge's source
\* node followed by those of its target node.
C16_BaseEdgePositions ==
    Derived =>
        /\ Len(snapshot.baseEdgePositions) = 6 * Len(snapshot.edges)
        /\ \A k \in 0..(Len(snapshot.edges) - 1) : \A c \in 0..2 :
               /\ At(snapshot.baseEdgePositions, 6 * k + c)
                      = At(snapshot.positions, 3 * At(snapshot.edges, k).sourceIndex + c)
               /\ At(snapshot.baseEdgePositions, 6 * k + 3 + c)
                      = At(snapshot.positions, 3 * At(snapshot.edges, k).targetIndex + c)

\* C16 witness: two raw edges, the first dropped, leave a buffer of length 6
\* that holds two different endpoints.
C16_Witness ==
    /\ Derived
    /\ Len(package.edges) = 2
    /\ ~BothLoaded(package.edges[1])
    /\ Len(snapshot.edges) = 1
    /\ Len(snapshot.baseEdgePositions) = 6
    /\ snapshot.edges[1].sourceIndex = 1
    /\ snapshot.edges[1].targetIndex = 0
    /\ At(snapshot.baseEdgePositions, 0) # At(snapshot.baseEdgePositions, 3)

\* C17: edgesByNodeIndex has one list per node index, and list i holds every
\* kept edge whose sourceIndex or targetIndex is i and no other edge.
C17_Adjacency ==
    Derived =>
        /\ Len(snapshot.edgesByNodeIndex) = Len(snapshot.nodes)
        /\ \A i \in NodeIndices :
               Range(At(snapshot.edgesByNodeIndex, i))
                   = {edge \in Range(snapshot.edges) :
                          edge.sourceIndex = i \/ edge.targetIndex = i}

\* C17 witness: over three nodes, the edges 2 -> 0 and 0 -> 2 are both in the
\* lists of indices 0 and 1, and the list of index 2 is empty.
C17_Witness ==
    /\ Derived
    /\ Len(snapshot.nodes) = 3
    /\ Len(snapshot.edges) = 2
    /\ snapshot.edges[1].sourceIndex = 1
    /\ snapshot.edges[1].targetIndex = 0
    /\ snapshot.edges[2].sourceIndex = 0
    /\ Len(At(snapshot.edgesByNodeIndex, 0)) = 2
    /\ Len(At(snapshot.edgesByNodeIndex, 1)) = 2
    /\ At(snapshot.edgesByNodeIndex, 2) = <<>>

\* A color.hex of the form the data model names: '#rgb' or '#rrggbb'.
IsHexColor(chars) ==
    /\ Len(chars) \in {4, 7}
    /\ chars[1] = "#"
    /\ \A k \in 2..Len(chars) : IsHexDigit(chars[k])

\* The node has no entry in the species list, or its entry has no color.hex.
NoColorHex(node) ==
    LET entry == speciesByKey(package.species, node.species)
    IN \/ entry = Absent
       \/ entry.color = Absent
       \/ entry.color.hex = Absent
\* The entry of the node has a color.hex that is not a hex colour.
InvalidColorHex(node) ==
    /\ ~NoColorHex(node)
    /\ ~IsHexColor(speciesByKey(package.species, node.species).color.hex.chars)

\* The colour of the node at an index, as the colors buffer holds it.
ColorAt(i) ==
    <<At(snapshot.colors, 3 * i), At(snapshot.colors, 3 * i + 1),
      At(snapshot.colors, 3 * i + 2)>>
Gray007 == <<fround(Q(7, 100)), fround(Q(7, 100)), fround(Q(7, 100))>>

\* C18: a node whose species has no matching entry in the species list, or
\* whose entry has an absent or an invalid color.hex, has the colour
\* (0.07, 0.07, 0.07) in the colors buffer: the same triple in all three cases.
C18_FallbackColor ==
    Derived =>
        \A i \in NodeIndices :
            (NoColorHex(At(snapshot.nodes, i).node)
                 \/ InvalidColorHex(At(snapshot.nodes, i).node))
                => ColorAt(i) = Gray007

\* The coordinate fields with a well-formed value on a node, by their rank in
\* the order position_cloud, position, position_tsne, position_raw.
WellFormedRanks(node) ==
    {r \in DOMAIN CoordFields : isVec3(node[CoordFields[r]])}
FirstWellFormed(node) ==
    CoordFields[CHOOSE r \in WellFormedRanks(node) :
                    \A q \in WellFormedRanks(node) : r <= q]

\* The field the display-field rule names for the package.
RuleField ==
    IF package.nodes = <<>> THEN "position"
    ELSE IF /\ package.manifest.default_field # NoField
            /\ isVec3(Prop(package.nodes[1], package.manifest.default_field))
         THEN package.manifest.default_field
    ELSE IF WellFormedRanks(package.nodes[1]) # {}
         THEN FirstWellFormed(package.nodes[1])
    ELSE "position"

\* default_field is position_tsne, and the first node lacks it but has a
\* well-formed position.
TsneScenario ==
    /\ package.manifest.default_field = "position_tsne"
    /\ package.nodes # <<>>
    /\ package.nodes[1].position_tsne = Absent
    /\ isVec3(package.nodes[1].position)

\* C19 as stated: the display field is the one the rule names from the first
\* node, and in the position_tsne scenario it is position.
C19_DisplayFieldAsStated ==
    Derived =>
        /\ snapshot.displayField = RuleField
        /\ TsneScenario => snapshot.displayField = "position"

\* C19, amended: the display field is the manifest's default_field if the
\* first node of the package has a well-formed value under it, otherwise the
\* first of position_cloud, position, position_tsne, position_raw that is
\* well-formed on the first node, otherwise position; in the position_tsne
\* scenario it is position when the first node has no well-formed
\* position_cloud, and position_cloud when it has one.
C19_DisplayField ==
    Derived =>
        /\ snapshot.displayField = RuleField
        /\ TsneScenario =>
               snapshot.displayField =
                   IF isVec3(package.nodes[1].position_cloud)
                   THEN "position_cloud" ELSE "position"

\* C19 witness: default_field is position_tsne; the first node to arrive lacks
\* it and position_cloud but has a well-formed position, the node that sorts
\* first has a well-formed position_tsne; position is chosen.
C19_Witness ==
    /\ Derived
    /\ TsneScenario
    /\ Len(package.nodes) = 2
    /\ package.nodes[1].position_cloud = Absent
    /\ isVec3(At(snapshot.nodes, 0).node.position_tsne)
    /\ At(snapshot.nodes, 0).id # package.nodes[1].id
    /\ snapshot.displayField = "position"

\* The raw coordinate the per-node rule names for a node.
RuleCoordinate(node, field) ==
    IF isVec3(Prop(node, field)) THEN Prop(node, field)
    ELSE IF WellFormedRanks(node) # {} THEN node[FirstWellFormed(node)]
    ELSE Vec(0, 0, 0, {})

\* C20: every node of a derived snapshot is displayed at the scaled value of
\* its own coordinate under the chosen display field if that is well-formed,
\* else of its first well-formed value among position_cloud, position,
\* position_tsne, position_raw, else of (0, 0, 0); the positions buffer holds
\* that value, and every package is derived.
C20_NodeCoordinate ==
    Derived =>
        \A i \in NodeIndices :
            LET node == At(snapshot.nodes, i)
                shown == stylizeDisplayPosition(
                             RuleCoordinate(node.node, snapshot.displayField))
            IN /\ node.displayPosition = shown
               /\ At(snapshot.positions, 3 * i) = fround(shown.x)
               /\ At(snapshot.positions, 3 * i + 1) = fround(shown.y)
               /\ At(snapshot.positions, 3 * i + 2) = fround(shown.z)

\* C20 witness: position_tsne is chosen from the first node to arrive; the
\* other node has a malformed position_tsne and position_cloud and is shown at
\* its position_raw.
C20_Witness ==
    /\ Derived
    /\ snapshot.displayField = "position_tsne"
    /\ Len(snapshot.nodes) = 2
    /\ At(snapshot.nodes, 0).node.position_tsne = Malformed(0, "position_tsne")
    /\ At(snapshot.nodes, 0).node.position_cloud = Malformed(0, "position_cloud")
    /\ At(snapshot.nodes, 0).node.position = Absent
    /\ At(snapshot.nodes, 0).displayPosition
           = stylizeDisplayPosition(WellFormed(0, "position_raw"))

\* ======================================================= claims C21..C30
\* A legend entry without its label.
Unlabelled(entry) ==
    [species |-> entry.species, count |-> entry.count, color |-> entry.color]
\* How many elements of a sequence are equal to a value.
Occurrences(s, v) == Cardinality({i \in DOMAIN s : s[i] = v})

\* C21: speciesLegend is a permutation of the species list of the package in
\* non-increasing order of count, each entry with a label added; the
\* derivation leaves the species array, the nodes array and their records as
\* they were, and the snapshot's species is the array of the package.
C21_LegendLeavesInputs ==
    /\ [](Derived =>
            /\ Len(snapshot.speciesLegend) = Len(package.species)
            /\ \A i \in DOMAIN package.species :
                   Occurrences([k \in DOMAIN snapshot.speciesLegend |->
                                    Unlabelled(snapshot.speciesLegend[k])],
                               package.species[i])
                       = Occurrences(package.species, package.species[i])
            /\ \A i, j \in DOMAIN snapshot.speciesLegend :
                   i < j => snapshot.speciesLegend[i].count
                                >= snapshot.speciesLegend[j].count
            /\ \A i \in DOMAIN snapshot.speciesLegend :
                   /\ "label" \in DOMAIN snapshot.speciesLegend[i]
                   /\ snapshot.speciesLegend[i].label # <<>>
            /\ \A i \in DOMAIN package.species :
                   "label" \notin DOMAIN package.species[i]
            /\ \A i \in DOMAIN package.nodes :
                   "displayPosition" \notin DOMAIN package.nodes[i]
            /\ snapshot.species = package.species)
    /\ [][package' = package]_vars

\* C21 witness: the species arrived with counts 3, 7, 7 and the nodes as 5, 0;
\* the legend lists 7, 7, 3 with the label 'Mus Musculus' first, and both
\* arrays are still in their order of arrival.
C21_Witness ==
    /\ Derived
    /\ [i \in DOMAIN package.species |-> package.species[i].count] = <<3, 7, 7>>
    /\ package.species[2].species = "mus_musculus"
    /\ package.species[3].species = "homo_sapiens"
    /\ Ids(package.nodes) = <<5, 0>>
    /\ Ids(snapshot.nodes) = <<0, 5>>
    /\ [i \in DOMAIN snapshot.speciesLegend |-> snapshot.speciesLegend[i].count]
           = <<7, 7, 3>>
    /\ snapshot.speciesLegend[1].label
           = <<"M", "u", "s", " ", "M", "u", "s", "c", "u", "l", "u", "s">>
    /\ snapshot.speciesLegend[2].label
           = <<"H", "o", "m", "o", " ", "S", "a", "p", "i", "e", "n", "s">>

\* ================================================= the file fetcher, in full
\* buildUrl, withCacheBust, fetchJson and parseJsonDataUrl as the code computes
\* them, under the effect of useHypercubeData that supplies the cacheBust.
\* A string is the sequence of its pieces: each of \ / ? and , is a piece of
\* its own, as are a '.' that stands alone, 'data:', ';base64' and 'v='.
Undefined == [kind |-> "undefined"]
Str(pieces) == [kind |-> "string", pieces |-> pieces]

\* String.prototype.includes / startsWith for one piece.
Includes(pieces, piece) == \E i \in DOMAIN pieces : pieces[i] = piece
StartsWith(pieces, piece) == Len(pieces) >= 1 /\ pieces[1] = piece

\* .replace(/\\/g, '/')
BackslashesToSlashes(pieces) ==
    [i \in DOMAIN pieces |-> IF pieces[i] = "\\" THEN "/" ELSE pieces[i]]
\* .replace(/^\.?\//, '')
StripDotSlash(pieces) ==
    IF StartsWith(pieces, "/") THEN Tail(pieces)
    ELSE IF Len(pieces) >= 2 /\ pieces[1] = "." /\ pieces[2] = "/"
         THEN Tail(Tail(pieces))
    ELSE pieces
\* .replace(/^\/+/, '')
RECURSIVE StripSlashes(_)
StripSlashes(pieces) ==
    IF StartsWith(pieces, "/") THEN StripSlashes(Tail(pieces)) ELSE pieces
\* .replace(/\/+$/, '')
RECURSIVE StripTrailingSlashes(_)
StripTrailingSlashes(pieces) ==
    IF Len(pieces) >= 1 /\ pieces[Len(pieces)] = "/"
    THEN StripTrailingSlashes(SubSeq(pieces, 1, Len(pieces) - 1))
    ELSE pieces

\* const clean = String(filePath || '').replace(...).replace(...).replace(...)
clean(filePath) == StripSlashes(StripDotSlash(BackslashesToSlashes(filePath)))

\* const DATA_PREFIX = (import.meta.env.VITE_DATA_PREFIX ?? '').replace(/\/+$/, '')
DATA_PREFIX(environment) ==
    IF environment.VITE_DATA_PREFIX = Undefined THEN <<>>
    ELSE StripTrailingSlashes(environment.VITE_DATA_PREFIX.pieces)

\* The JSON documents of the four files, and their encodings in data: URLs.
BundledFiles == {"manifest.json", "nodes.json", "edges.json", "species.json"}
JsonText(file) ==
    CASE file = "manifest.json" -> "{\"generated_files\":{}}"
      [] file = "nodes.json" -> "[{\"id\":0}]"
      [] file = "edges.json" -> "[{\"source\":0,\"target\":0}]"
      [] OTHER -> "[{\"species\":\"homo_sapiens\"}]"
Base64Text(file) ==
    CASE file = "manifest.json" -> "eyJnZW5lcmF0ZWRfZmlsZXMiOnt9fQ=="
      [] file = "nodes.json" -> "W3siaWQiOjB9XQ=="
      [] file = "edges.json" -> "W3sic291cmNlIjowLCJ0YXJnZXQiOjB9XQ=="
      [] OTHER -> "W3sic3BlY2llcyI6ImhvbW9fc2FwaWVucyJ9XQ=="
PercentText(file) ==
    CASE file = "manifest.json" -> "%7B%22generated_files%22%3A%7B%7D%7D"
      [] file = "nodes.json" -> "%5B%7B%22id%22%3A0%7D%5D"
      [] file = "edges.json" -> "%5B%7B%22source%22%3A0%2C%22target%22%3A0%7D%5D"
      [] OTHER -> "%5B%7B%22species%22%3A%22homo_sapiens%22%7D%5D"

\* import <file>LocalUrl from '../../tsne/<file>?url': the bundler emits the
\* file as an asset or inlines it as a data: URL.
LocalUrl(environment, file) ==
    CASE environment.bundled = "asset" -> <<"/", "assets", "/", file>>
      [] environment.bundled = "base64" ->
             <<"data:", "application/json", ";base64", ",", Base64Text(file)>>
      [] environment.bundled = "percent" ->
             <<"data:", "application/json", ",", PercentText(file)>>
      [] OTHER -> <<"data:", "application/json">>

\* LOCAL_DATA_URLS[clean]: the four own keys, the properties the object
\* literal inherits from Object.prototype (functions and objects, not
\* strings), and undefined for every other key.
LOCAL_DATA_URLS(environment, key) ==
    LET inheritedKeys ==
            {"constructor", "toString", "valueOf", "hasOwnProperty", "__proto__"}
    IN IF Len(key) = 1 /\ key[1] \in BundledFiles
       THEN Str(LocalUrl(environment, key[1]))
       ELSE IF Len(key) = 1 /\ key[1] \in inheritedKeys THEN [kind |-> "object"]
       ELSE Undefined

\* A value in a condition.
Truthy(value) ==
    \/ value.kind = "object"
    \/ value.kind = "string" /\ value.pieces # <<>>

\* An exception: its constructor and its message.
Thrown(name, message) == [kind |-> "thrown", name |-> name, message |-> message]

\* function withCacheBust(url, cacheBust); url.includes is not a function
\* when url is not a string.
withCacheBust(url, cacheBust) ==
    IF cacheBust = 0 THEN url
    ELSE IF url.kind # "string"
         THEN Thrown("TypeError", <<"url.includes is not a function">>)
    ELSE Str(url.pieces \o <<IF Includes(url.pieces, "?") THEN "&" ELSE "?",
                             "v=", ToString(cacheBust)>>)

\* function buildUrl(filePath, cacheBust)
buildUrl(environment, filePath, cacheBust) ==
    LET cleaned == clean(filePath)
        localAssetUrl == LOCAL_DATA_URLS(environment, cleaned)
    IN IF DATA_PREFIX(environment) # <<>>
       THEN withCacheBust(
                Str(<<"/">> \o DATA_PREFIX(environment) \o <<"/">> \o cleaned),
                cacheBust)
       ELSE IF Truthy(localAssetUrl) THEN withCacheBust(localAssetUrl, cacheBust)
       ELSE withCacheBust(Str(<<"/">> \o cleaned), cacheBust)

\* JSON.parse(text): the value of a JSON text, a SyntaxError for any other.
Json(file) == [kind |-> "json", of |-> file]
JSONparse(pieces) ==
    IF Len(pieces) = 1 /\ \E f \in BundledFiles : JsonText(f) = pieces[1]
    THEN Json(CHOOSE f \in BundledFiles : JsonText(f) = pieces[1])
    ELSE Thrown("SyntaxError", <<"Unexpected token in JSON">>)

\* atob(payload): the text a base64 string encodes; any character outside the
\* base64 alphabet, such as '?', is an InvalidCharacterError.
atob(pieces) ==
    IF Len(pieces) = 1 /\ \E f \in BundledFiles : Base64Text(f) = pieces[1]
    THEN Str(<<JsonText(CHOOSE f \in BundledFiles : Base64Text(f) = pieces[1])>>)
    ELSE Thrown("InvalidCharacterError",
                <<"The string to be decoded is not correctly encoded">>)

\* decodeURIComponent(payload): percent escapes are decoded, every other
\* character, '?' and '=' included, stands for itself.
decodeURIComponent(pieces) ==
    [i \in DOMAIN pieces |->
        IF \E f \in BundledFiles : PercentText(f) = pieces[i]
        THEN JsonText(CHOOSE f \in BundledFiles : PercentText(f) = pieces[i])
        ELSE pieces[i]]

\* function parseJsonDataUrl(url); commaIndex is value.indexOf(','), 1-based,
\* 0 when there is none.
parseJsonDataUrl(environment, url) ==
    LET commaIndex ==
            IF Includes(url, ",")
            THEN CHOOSE i \in DOMAIN url :
                     url[i] = "," /\ \A j \in 1..(i - 1) : url[j] # ","
            ELSE 0
        header == SubSeq(url, 1, commaIndex - 1)
        payload == SubSeq(url, commaIndex + 1, Len(url))
        decoded == atob(payload)
    IN IF commaIndex = 0
       THEN Thrown("Error", <<"Invalid data URL for JSON asset">>)
       ELSE IF Includes(header, ";base64")
            THEN IF ~environment.atob
                 THEN Thrown("Error",
                             <<"Base64 data URL decoding is not available in this environment">>)
                 ELSE IF decoded.kind = "thrown" THEN decoded
                 ELSE JSONparse(decoded.pieces)
       ELSE JSONparse(decodeURIComponent(payload))

\* What fetch(url, {signal, cache: 'no-store'}) settles with: a response with
\* a status and a body, or a rejection.
Responses ==
    {[kind |-> "response", status |-> 200, body |-> JsonText("nodes.json")],
     [kind |-> "response", status |-> 200, body |-> "<!doctype html>"],
     [kind |-> "response", status |-> 404, body |-> "<!doctype html>"],
     [kind |-> "rejection", name |-> "TypeError"],
     [kind |-> "rejection", name |-> "AbortError"]}

\* async function fetchJson(filePath, { signal, cacheBust }): the URL it
\* built, whether it called fetch, and the value it resolves with or the
\* exception it rejects with; response.ok is a status from 200 to 299.
fetchJson(environment, filePath, cacheBust, response) ==
    LET url == buildUrl(environment, filePath, cacheBust)
    IN IF url.kind = "thrown"
       THEN [url |-> Undefined, network |-> FALSE, settled |-> url]
       ELSE IF url.kind # "string"
       THEN [url |-> url, network |-> FALSE,
             settled |-> Thrown("TypeError", <<"url.startsWith is not a function">>)]
       ELSE IF StartsWith(url.pieces, "data:")
       THEN [url |-> url, network |-> FALSE,
             settled |-> parseJsonDataUrl(environment, url.pieces)]
       ELSE [url |-> url, network |-> TRUE,
             settled |->
                 IF response.kind = "rejection"
                 THEN Thrown(response.name, <<"Failed to fetch">>)
                 ELSE IF ~(response.status >= 200 /\ response.status <= 299)
                 THEN Thrown("Error",
                             <<"Failed to load ">> \o filePath
                                 \o <<" (", ToString(response.status), ")">>)
                 ELSE JSONparse(<<response.body>>)]

\* ------------------------------------------------------- builds and paths
MaxClock == 2

\* import.meta.env.VITE_DATA_PREFIX, how the bundler emitted the four files,
\* and whether atob exists.
Builds ==
    {[VITE_DATA_PREFIX |-> prefix, bundled |-> bundled, atob |-> available] :
        prefix \in {Undefined, Str(<<"/">>), Str(<<"cdn", "/", "pkg", "/">>)},
        bundled \in {"asset", "base64", "percent", "nocomma"},
        available \in BOOLEAN}

\* files.<f> ?? '<f>.json': the paths a manifest may name for a file.
PathsOf(f) ==
    CASE f = "manifest" -> {<<"manifest.json">>}
      [] f = "nodes" -> {<<"nodes.json">>,
                         <<".", "/", "nodes.json">>,
                         <<"constructor">>}
      [] f = "edges" -> {<<"\\", "edges.json">>,
                         <<"/", "/", "pkg", "/", "edges.json">>,
                         <<>>}
      [] OTHER -> {<<"/", ".", "/", "species.json">>,
                   <<"species.json", "?", "rev=2">>}

InitFetch ==
    /\ refreshToken = 0
    /\ state = LoadingState(InitialState)
    /\ gens = [g \in Gens |-> IF g = 0 THEN NewGen ELSE IdleGen]
    /\ mounted = TRUE
    /\ hoverState = NullIndex
    /\ selectedIndex = NullIndex
    /\ package = NoPackage
    /\ snapshot = NoSnapshot
    /\ StylingIdle
    /\ env \in {b \in Builds : b.atob \/ b.bundled = "base64"}
    /\ now = 1
    /\ loads = <<>>
    /\ fetched = NoFetch

\* Time passes: a later Date.now() reads a larger number.
Tick ==
    /\ now < MaxClock
    /\ now' = now + 1
    /\ UNCHANGED <<refreshToken, state, gens, mounted, hoverState, selectedIndex>>
    /\ UNCHANGED <<derivation, styling, env, loads, fetched>>

\* The effect of useHypercubeData runs for the next generation:
\* const cacheBust = Date.now()
Effect ==
    /\ Len(loads) <= MaxReloads
    /\ loads' = Append(loads, [cacheBust |-> now, sent |-> {}])
    /\ UNCHANGED <<refreshToken, state, gens, mounted, hoverState, selectedIndex>>
    /\ UNCHANGED <<derivation, styling, env, now, fetched>>

\* The current generation calls fetchJson(filePath, {signal, cacheBust}) for
\* file f and the call settles; sent is the v parameter its URL ends with.
FetchJson(f, filePath, response) ==
    /\ loads # <<>>
    /\ LET g == Len(loads)
           call == fetchJson(env, filePath, loads[g].cacheBust, response)
           sent == IF call.url.kind = "string" /\ Len(call.url.pieces) >= 2
                          /\ call.url.pieces[Len(call.url.pieces) - 1] = "v="
                   THEN {call.url.pieces[Len(call.url.pieces)]}
                   ELSE {}
       IN /\ fetched' = [gen |-> g, file |-> f, filePath |-> filePath,
                         cacheBust |-> loads[g].cacheBust,
                         url |-> call.url, network |-> call.network,
                         settled |-> call.settled]
          /\ loads' = [loads EXCEPT ![g].sent = @ \cup sent]
    /\ UNCHANGED <<refreshToken, state, gens, mounted, hoverState, selectedIndex>>
    /\ UNCHANGED <<derivation, styling, env, now>>

NextFetch ==
    \/ Tick
    \/ Effect
    \/ \E f \in FileNames : \E filePath \in PathsOf(f) : \E response \in Responses :
           FetchJson(f, filePath, response)

SpecFetch == InitFetch /\ [][NextFetch]_vars

\* -------------------------------------------------------- claims C22..C25
\* fetchJson has been called.
Fetched == fetched # NoFetch

\* Cleaning as the rule words it: backslashes become '/', then a leading './'
\* is stripped, then leading slashes are stripped.
RuleClean(filePath) ==
    LET slashed == BackslashesToSlashes(filePath)
        undotted == IF Len(slashed) >= 2 /\ slashed[1] = "." /\ slashed[2] = "/"
                    THEN SubSeq(slashed, 3, Len(slashed)) ELSE slashed
    IN StripSlashes(undotted)

\* The location the priority rule names for a path: the configured base and
\* the cleaned path, else the bundled copy of the cleaned name, else '/' and
\* the cleaned path.
RuleLocation(environment, filePath) ==
    LET cleaned == RuleClean(filePath)
    IN IF DATA_PREFIX(environment) # <<>>
       THEN <<"/">> \o DATA_PREFIX(environment) \o <<"/">> \o cleaned
       ELSE IF Len(cleaned) = 1 /\ cleaned[1] \in BundledFiles
            THEN LocalUrl(environment, cleaned[1])
       ELSE <<"/">> \o cleaned

\* A URL without the v parameter it ends with.
WithoutToken(pieces) ==
    IF Len(pieces) >= 3 /\ pieces[Len(pieces) - 1] = "v="
    THEN SubSeq(pieces, 1, Len(pieces) - 3) ELSE pieces

\* C22: for every file path, the location fetchJson resolves is the one the
\* priority rule names: the configured base followed by the cleaned path if a
\* prefix is configured, otherwise the bundled copy keyed by the cleaned name
\* if there is one, otherwise '/' followed by the cleaned path.
C22_LocationPriority ==
    Fetched =>
        /\ fetched.url.kind = "string"
        /\ WithoutToken(fetched.url.pieces) = RuleLocation(env, fetched.filePath)

\* C23: every URL of a load generation ends with that generation's token as
\* the parameter v, after '?' or after '&' when the URL already has a query;
\* all fetches of one generation carry the same token; and the tokens of two
\* successive generations differ.
C23_TokenPerGeneration ==
    /\ (Fetched /\ fetched.url.kind = "string") =>
           LET pieces == fetched.url.pieces
               location == SubSeq(pieces, 1, Len(pieces) - 3)
           IN /\ Len(pieces) >= 3
              /\ SubSeq(pieces, Len(pieces) - 2, Len(pieces))
                     = <<IF Includes(location, "?") THEN "&" ELSE "?",
                         "v=", ToString(loads[fetched.gen].cacheBust)>>
    /\ \A g \in DOMAIN loads : loads[g].sent \subseteq {ToString(loads[g].cacheBust)}
    /\ \A g \in DOMAIN loads :
           g + 1 \in DOMAIN loads => loads[g].cacheBust # loads[g + 1].cacheBust

\* The bundled file an inline document encodes.
InlineFile(pieces) ==
    CHOOSE f \in BundledFiles :
        Includes(pieces, Base64Text(f)) \/ Includes(pieces, PercentText(f))

\* C24: when the resolved location of a file is an inline data: document,
\* fetchJson calls no fetch and resolves with the JSON value the document
\* encodes, with the generation's token applied; it rejects with an Error when
\* the document has no ',' or base64 decoding is not available.
C24_InlineDocument ==
    (Fetched /\ fetched.url.kind = "string" /\ StartsWith(fetched.url.pieces, "data:")) =>
        /\ ~fetched.network
        /\ IF \/ ~Includes(fetched.url.pieces, ",")
              \/ Includes(fetched.url.pieces, ";base64") /\ ~env.atob
           THEN fetched.settled.kind = "thrown" /\ fetched.settled.name = "Error"
           ELSE fetched.settled = Json(InlineFile(fetched.url.pieces))

\* A sequence occurs in another as a run of consecutive pieces.
Mentions(message, pieces) ==
    \E i \in 0..(Len(message) - Len(pieces)) :
        SubSeq(message, i + 1, i + Len(pieces)) = pieces

\* C25: every fetch that fails, other than by cancellation, rejects with an
\* error whose message names the file; for an unsuccessful HTTP response the
\* message also carries the status.
C25_ErrorNamesFile ==
    (Fetched /\ fetched.settled.kind = "thrown" /\ fetched.settled.name # "AbortError") =>
        /\ Mentions(fetched.settled.message, fetched.filePath)
        /\ fetched.settled.name = "Error" /\ fetched.network
               => Mentions(fetched.settled.message, <<"404">>)

\* ========================================= stylizeDisplayPosition, in full
\* stylizeDisplayPosition and cubeToSphere for both shape modes and every
\* spherify amount, over coordinates that are rational numbers. A number is
\* kept exactly, in the form rat + coef * sqrt(rad) with rat, coef and rad
\* rational; the rounding of double arithmetic is left out.
Zero == Q(0, 1)
One == Q(1, 1)
Plus(a, b) == Q(a.num * b.den + b.num * a.den, a.den * b.den)
Product(a, b) == Q(a.num * b.num, a.den * b.den)
LessEq(a, b) == a.num * b.den <= b.num * a.den
\* Math.max(lo, Math.min(hi, v))
Clamp(lo, hi, v) ==
    LET least == IF LessEq(hi, v) THEN hi ELSE v
    IN IF LessEq(least, lo) THEN lo ELSE least

\* rat + coef * sqrt(rad); without a root part the radicand is 1.
Real(rat, coef, rad) ==
    IF coef = Zero THEN [rat |-> rat, coef |-> Zero, rad |-> One]
    ELSE [rat |-> rat, coef |-> coef, rad |-> rad]
\* Math.sqrt of a rational that is not negative.
MathSqrt(q) ==
    LET IsSquare(n) == \E k \in 0..n : k * k = n
        Root(n) == CHOOSE k \in 0..n : k * k = n
    IN IF IsSquare(q.num) /\ IsSquare(q.den)
       THEN Real(Q(Root(q.num), Root(q.den)), Zero, One)
       ELSE Real(Zero, One, q)
\* q * s and q + s for a rational q and a number s.
RealTimes(q, s) == Real(Product(q, s.rat), Product(q, s.coef), s.rad)
RealPlus(q, s) == Real(Plus(q, s.rat), s.coef, s.rad)

\* function cubeToSphere(position); Factor(y, z) is
\* Math.sqrt(Math.max(0, 1 - yy / 2 - zz / 2 + (yy * zz) / 3)).
cubeToSphere(position) ==
    LET Factor(y, z) ==
            LET yy == Product(y, y)
                zz == Product(z, z)
                sum == Plus(Plus(Plus(One, Product(Q(-1, 2), yy)),
                                 Product(Q(-1, 2), zz)),
                            Product(Q(1, 3), Product(yy, zz)))
            IN MathSqrt(IF LessEq(Zero, sum) THEN sum ELSE Zero)
    IN [x |-> RealTimes(position.x, Factor(position.y, position.z)),
        y |-> RealTimes(position.y, Factor(position.z, position.x)),
        z |-> RealTimes(position.z, Factor(position.x, position.y))]

\* const DISPLAY_SHAPE_MODE =
\*     String(import.meta.env.VITE_DISPLAY_SHAPE_MODE ?? 'freeform').toLowerCase()
DISPLAY_SHAPE_MODE(environment) ==
    LET toLowerCase(text) ==
            IF text = "SPHERIFY" \/ text = "Spherify" THEN "spherify"
            ELSE IF text = "FreeForm" THEN "freeform" ELSE text
    IN IF environment.VITE_DISPLAY_SHAPE_MODE = Undefined THEN "freeform"
       ELSE toLowerCase(environment.VITE_DISPLAY_SHAPE_MODE.pieces[1])

\* Number(value) for undefined and for the strings of VITE_DISPLAY_SPHERIFY_AMOUNT.
Number(value) ==
    IF value = Undefined THEN NaN
    ELSE LET text == value.pieces[1]
         IN CASE text = "-1" -> Q(-1, 1)
              [] text = "0" -> Q(0, 1)
              [] text = "0.5" -> Q(1, 2)
              [] text = "1" -> Q(1, 1)
              [] text = "2" -> Q(2, 1)
              [] text = "Infinity" -> [kind |-> "Infinity"]
              [] OTHER -> NaN

\* const DISPLAY_SPHERIFY_AMOUNT = Number.isFinite(Number(...)) ? Number(...) : 0.82
DISPLAY_SPHERIFY_AMOUNT(environment) ==
    LET number == Number(environment.VITE_DISPLAY_SPHERIFY_AMOUNT)
    IN IF "num" \in DOMAIN number THEN number ELSE Q(82, 100)

\* const t = Math.max(0, Math.min(1, DISPLAY_SPHERIFY_AMOUNT))
tUnclamped(amount) == amount
t(amount) == Clamp(Zero, One, amount)

\* function stylizeDisplayPosition(position) in a build with the given
\* environment; the argument has three finite components, so `?? 0` never
\* applies. Blend(b, s) is (base.x + (sphere.x - base.x) * t) * DISPLAY_GLOBAL_SCALE.
stylizeDisplayPositionIn(environment, position) ==
    IF DISPLAY_SHAPE_MODE(environment) # "spherify"
    THEN [x |-> Real(Product(position.x, DISPLAY_GLOBAL_SCALE), Zero, One),
          y |-> Real(Product(position.y, DISPLAY_GLOBAL_SCALE), Zero, One),
          z |-> Real(Product(position.z, DISPLAY_GLOBAL_SCALE), Zero, One)]
    ELSE LET base == [x |-> Clamp(Q(-1, 1), One, position.x),
                      y |-> Clamp(Q(-1, 1), One, position.y),
                      z |-> Clamp(Q(-1, 1), One, position.z)]
             sphere == cubeToSphere(base)
             amount == t(DISPLAY_SPHERIFY_AMOUNT(environment))
             Blend(b, s) ==
                 RealTimes(DISPLAY_GLOBAL_SCALE,
                     RealPlus(b, RealTimes(amount,
                                  RealPlus(Product(Q(-1, 1), b), s))))
         IN [x |-> Blend(base.x, sphere.x),
             y |-> Blend(base.y, sphere.y),
             z |-> Blend(base.z, sphere.z)]

\* ------------------------------------------------------- inputs and steps
\* Coordinates are the multiples of 1/2 from -MaxCoord to MaxCoord.
MaxCoord == 2

\* A build with its two environment variables, and a position.
InitStylize ==
    /\ refreshToken = 0
    /\ state = LoadingState(InitialState)
    /\ gens = [g \in Gens |-> IF g = 0 THEN NewGen ELSE IdleGen]
    /\ mounted = TRUE
    /\ hoverState = NullIndex
    /\ selectedIndex = NullIndex
    /\ package = NoPackage
    /\ snapshot = NoSnapshot
    /\ \E mode \in {Undefined, Str(<<"freeform">>), Str(<<"spherify">>),
                    Str(<<"SPHERIFY">>)},
          amount \in {Undefined} \cup
                     {Str(<<text>>) : text \in {"-1", "0", "0.5", "1", "2", "Infinity"}} :
           env = [VITE_DISPLAY_SHAPE_MODE |-> mode,
                  VITE_DISPLAY_SPHERIFY_AMOUNT |-> amount]
    /\ now = 0
    /\ loads = <<>>
    /\ fetched = NoFetch
    /\ \E x, y, z \in {Q(n, 2) : n \in (-2 * MaxCoord)..(2 * MaxCoord)} :
           rawPosition = [x |-> x, y |-> y, z |-> z]
    /\ stylized = NoPosition

\* One call of stylizeDisplayPosition.
Stylize ==
    /\ stylized = NoPosition
    /\ stylized' = stylizeDisplayPositionIn(env, rawPosition)
    /\ UNCHANGED <<refreshToken, state, gens, mounted, hoverState, selectedIndex>>
    /\ UNCHANGED <<derivation, fetching, rawPosition>>

NextStylize == Stylize

SpecStylize == InitStylize /\ [][NextStylize]_vars

\* ------------------------------------------------------------- claim C26
Stylized == stylized # NoPosition

\* A component limited to [-1, 1], and a position multiplied by the global
\* scale.
Limited(v) == IF LessEq(v, Q(-1, 1)) THEN Q(-1, 1) ELSE IF LessEq(One, v) THEN One ELSE v
LimitedPosition(p) == [x |-> Limited(p.x), y |-> Limited(p.y), z |-> Limited(p.z)]
ScaledBy95(p) ==
    [x |-> RealTimes(Q(95, 100), p.x),
     y |-> RealTimes(Q(95, 100), p.y),
     z |-> RealTimes(Q(95, 100), p.z)]
AsReal(p) ==
    [x |-> Real(p.x, Zero, One), y |-> Real(p.y, Zero, One), z |-> Real(p.z, Zero, One)]

\* C26: in spherify mode an amount of 0 or less gives the input clamped to
\* [-1, 1] times the global scale, and an amount of 1 or more gives the
\* cube-to-sphere remap of the clamped input times the global scale; in any
\* other mode the result is the input times the global scale, unclamped.
C26_SpherifyBounds ==
    Stylized =>
        LET amount == DISPLAY_SPHERIFY_AMOUNT(env)
            clamped == LimitedPosition(rawPosition)
        IN IF DISPLAY_SHAPE_MODE(env) = "spherify"
           THEN /\ LessEq(amount, Zero) => stylized = ScaledBy95(AsReal(clamped))
                /\ LessEq(One, amount) => stylized = ScaledBy95(cubeToSphere(clamped))
           ELSE stylized = ScaledBy95(AsReal(rawPosition))

\* An amount above 1 in spherify mode, applied to a position with a component
\* beyond the cube whose remap has an irrational component.
C26_Witness ==
    /\ Stylized
    /\ DISPLAY_SHAPE_MODE(env) = "spherify"
    /\ DISPLAY_SPHERIFY_AMOUNT(env) = Q(2, 1)
    /\ rawPosition = [x |-> Q(2, 1), y |-> Q(1, 2), z |-> Q(-3, 2)]
    /\ stylized.x.coef # Zero
    /\ stylized.x # RealTimes(Q(95, 100), Real(One, Zero, One))

\* ------------------------------------------------------------- claim C27
\* C27: across a reload during which data is never null, the selection is
\* kept: a step that changes the observable state from one with a snapshot to
\* one with a snapshot (entering 'loading' with the previous snapshot, or
\* committing the new one) whose nodes list is longer than selectedIndex
\* leaves selectedIndex as it is.
C27_SelectionKeptOnReload ==
    [][(/\ state' # state
        /\ state.data # NullData
        /\ state'.data # NullData
        /\ selectedIndex # NullIndex
        /\ selectedIndex < state'.data.count)
           => selectedIndex' = selectedIndex]_vars

\* C27 witness: the snapshot of the second generation is on display, it is
\* not longer than needed to hold the selection, and node 1 is selected.
C27_Witness ==
    /\ refreshToken = 1
    /\ state.status = "ready"
    /\ state.data.manifest.signal = 1
    /\ gens[0].exit = "ready"
    /\ state.data.count = 2
    /\ selectedIndex = 1

\* ------------------------------------------------------------- claim C30
\* const hoveredNode = data && hoveredIndex != null ? data.nodes[hoveredIndex] : null
\* with hoveredIndex the index of the hover state once the deferred value has
\* caught up: a node of the snapshot, undefined beyond its nodes list, or null.
hoveredNode ==
    IF state.data # NullData /\ hoverState # NullIndex
    THEN IF hoverState < state.data.count
         THEN [kind |-> "node", index |-> hoverState]
         ELSE Undefined
    ELSE [kind |-> "null"]

\* A step of the load lifecycle: reload(), unmounting, or a step of a
\* generation (a fetch settling, the commit of 'ready' or 'error').
LifecycleStep ==
    \/ refreshToken' # refreshToken
    \/ mounted' # mounted
    \/ gens' # gens
    \/ state' # state

\* C30: the hover state changes only in a pointer event on the rendered
\* canvas, which sets it to a node index of the snapshot on display or clears
\* it; no step of the load lifecycle changes it; and a hover index that is
\* not below the length of the nodes list resolves to no hovered node.
C30_HoverOnlyByPointer ==
    /\ [][/\ hoverState' # hoverState
               => /\ ~LifecycleStep
                  /\ CanvasRendered
                  /\ hoverState' = NullIndex \/ hoverState' \in 0..(state.data.count - 1)
          /\ LifecycleStep => hoverState' = hoverState]_vars
    /\ []((state.data # NullData /\ hoverState # NullIndex
           /\ hoverState >= state.data.count) => hoveredNode = Undefined)

\* C30 witness: after a reload the snapshot on display has one node and the
\* hover still holds index 1 of the snapshot before it.
C30_Witness ==
    /\ refreshToken = 1
    /\ gens[0].exit = "ready"
    /\ gens[1].exit = "ready"
    /\ state.status = "ready"
    /\ state.data.count = 1
    /\ hoverState = 1
    /\ hoveredNode = Undefined

\* ------------------------------------------------------------- claim C28
\* In this step: fetch f of the current generation stays in flight; a fetch
\* of the current generation fails; the continuation of the current
\* generation throws on a manifest that is null.
StaysPending(f) ==
    /\ gens[refreshToken].res[f] = "pending"
    /\ gens'[refreshToken].res[f] = "pending"
FetchFails ==
    \E f \in FileNames :
        /\ gens[refreshToken].res[f] = "pending"
        /\ gens'[refreshToken].res[f] = "rejected"
AllFourSucceeded == \A f \in FileNames : gens'[refreshToken].res[f] = "resolved"
ContinuationThrows ==
    /\ gens[refreshToken].res["manifest"] = "pending"
    /\ gens'[refreshToken].res["manifest"] = "resolved"
    /\ gens'[refreshToken].exit = "error"
NoReloadNoUnmount == refreshToken' = refreshToken /\ mounted' = mounted

SettlesCurrent ==
    \E g \in Gens :
        /\ g = refreshToken
        /\ \/ ManifestResolved(g)
           \/ ManifestRejected(g)
           \/ \E f \in DataFiles : FileResolved(g, f) \/ FileRejected(g, f)

\* The steps of useHypercubeData alone: reload(), unmounting, and the fetches
\* of its generations; the pointer is left out.
NextHook ==
    \/ Reload
    \/ Unmount
    \/ \E g \in Gens : ManifestResolved(g)
    \/ \E g \in Gens : ManifestRejected(g)
    \/ \E g \in Gens, f \in DataFiles : FileResolved(g, f)
    \/ \E g \in Gens, f \in DataFiles : FileRejected(g, f)
    \/ \E g \in Gens, f \in DataFiles : FileSettledLate(g, f)

\* The hook in an environment where no fetch of the generation that is
\* current stays in flight for ever. Nothing is assumed of the fetches of a
\* superseded generation, nor of reload() or unmounting.
SpecSettling == Init /\ [][NextHook]_vars /\ WF_vars(SettlesCurrent)

\* ------------------------------------------------------------- claim C29
Settled == state.status \in {"ready", "error"}

\* C29: if the view stays mounted and the fetches of the last generation
\* settle (reload() is called finitely often), status eventually is 'ready'
\* or 'error' and stays so, whatever became of the generations cancelled
\* before.
C29_EventuallySettled == []mounted => <>[]Settled

\* C29 witness: the first generation was cancelled by reload() and its failure
\* swallowed, and the second generation has committed its snapshot.
C29_Witness ==
    /\ mounted
    /\ refreshToken = 1
    /\ gens[0].exit = "swallowed"
    /\ gens[1].exit = "ready"
    /\ state.status = "ready"

====
